---------------------------- MODULE Spec2Model ----------------------------
(***************************************************************************)
(* A model of the Venom middle-end of harkal/vyper: the IR (basic blocks   *)
(* and their terminators), the lowering's patch-up of unterminated blocks, *)
(* the CFG analysis, the analysis cache and its invalidation, the fixing   *)
(* of phi instructions, the alias oracle, Memory SSA and its clobber       *)
(* walks, redundant-load elimination, the function inliner, the DFT pass,  *)
(* Mem2Var, the unused-variable removal, the removal of empty blocks and   *)
(* the liveness recursion of bb_optimizer, the assembly generation of      *)
(* codegen/dfg.py, SCCP, the normalization pass and the lowering of `if`   *)
(* nodes.                                                                  *)
(*                                                                         *)
(* Each component has its own variables and its own specification; a       *)
(* specification holds the variables of the other components at their      *)
(* idle value.                                                             *)
(***************************************************************************)
EXTENDS Integers, Sequences, FiniteSets, TLC

VARIABLES
    \* ---- lowering (ir_node_to_venom) ----
    basic_blocks,   \* IRFunction.basic_blocks: sequence of [label, instructions]
    walked,         \* the block list as the tree walk left it (history)
    lpc,            \* position in ir_node_to_venom: "idle" | "walk" | "done"
    \* ---- CFG analysis ----
    fn,             \* the analysed function: sequence of [label, instructions]
    cfg_in,         \* block index -> set of block indices (IRBasicBlock.cfg_in)
    cfg_out,        \* block index -> set of block indices (IRBasicBlock.cfg_out)
    cpc,            \* "idle" | "fresh" | "analyzed" | "invalidated" | "mutated"
    \* ---- analysis cache (IRAnalysesCache) ----
    analyses_cache, \* the set of analysis classes with a cached result
    computed_before,\* cached results computed before the latest invalidation
                    \* of a cached CFGAnalysis (history)
    last_op,        \* the last cache operation and what it served (history)
    \* ---- phi fixing (IRBasicBlock.fix_phi_instructions) ----
    phi_insts,      \* the instructions of block B: [opcode, operands, output]
    phi_cfg_in,     \* cfg_in of B: the labels of its predecessors, in order
    ppc,            \* "idle" | "built" | "changed" | "fixed"
    \* ---- memory locations and the alias oracle ----
    loc_a,          \* first memory location of a query
    loc_b,          \* second memory location of a query
    alias_asked,    \* the queries answered so far: subset of {"may_alias", "completely_overlaps"}
    alias_ans,      \* [may_alias |-> BOOLEAN, completely_overlaps |-> BOOLEAN]
    \* ---- Memory SSA (passes/mem_ssa.py) ----
    ssa_fn,         \* the function the pass runs on: sequence of blocks
    ssa_cfg_in,     \* cfg_in of its blocks, once CFGAnalysis was requested
    next_version,   \* MemSSA.next_version
    memory_defs,    \* block -> sequence of MemoryDef [version, pos]
    def_keys,       \* the keys of memory_defs in insertion order
    memory_uses,    \* block -> sequence of MemoryUse [version, pos, reaching_def]
    memory_phis,    \* block -> [present, version, operands]
    spc,            \* position of run_pass
    \* ---- Memory SSA queries: get_clobbering_memory_access ----
    clob_prog,      \* the memory instructions of a block, in program order
    clob_ans,       \* the last query: [asked, def, result]
    \* ---- Memory SSA queries: get_clobbered_memory_access ----
    walk_fn,        \* the analysed function: sequence of blocks
    walk_ssa,       \* its Memory SSA: [built, reaching_def, operands]
    walk_ans,       \* the last query: [asked, use, result]
    \* ---- redundant load elimination ----
    rle_insts,      \* the instructions of the function, block by block
    rle_orig,       \* the instructions before the pass (history)
    available_loads_per_block,  \* block -> its available loads: [use, var]
    replacements,   \* load position -> replacement operand (0: none)
    rpc,            \* position of run_pass
    \* ---- function inliner (FuncInlinerPass) ----
    ctx_functions,  \* IRContext.functions: function -> sequence of blocks
    ctx_before,     \* the context before the pass (history)
    fcg,            \* the FCGAnalysis of the pass: [calls, callees]
    call_walk,      \* the call walk of run_pass
    walk_pos,       \* position of run_pass in call_walk
    inline_count,   \* FuncInlinerPass.inline_count
    last_label,     \* IRContext.last_label
    inlined,        \* the functions _inline_function was called for (history)
    ipc,            \* position of run_pass: "idle" | "start" | "loop" | "done"
    \* ---- DFTPass ----
    dft_fn,         \* the instructions of the function, block after block
    dft_out,        \* ctx.basic_blocks as rebuilt: per block, its instructions
    dft_fence,      \* instruction -> its fence_id (-1: not assigned yet)
    fence_id,       \* DFTPass.fence_id
    visited_instructions,   \* DFTPass.visited_instructions
    dpc,            \* position of _run_pass: "idle" | "build" | "blocks"
    \* ---- Mem2Var ----
    m2v_insts,      \* the instructions of the function's block
    m2v_before,     \* the instructions before the pass (history)
    m2v_todo,       \* the alloca variables _run_pass has still to process
    var_name_count, \* Mem2Var.var_name_count
    last_variable,  \* IRFunction.last_variable
    mpc,            \* position of _run_pass: "idle" | "start" | "allocas"
    \* bb_optimizer: unused-variable removal
    opt_blocks,             \* ctx.basic_blocks: the instructions of each block
    opt_before,             \* the blocks handed to optimize_function
    removed_log,            \* every removed instruction, with the liveness after it
    removed,                \* the number of instructions the last round removed
    opc,
    \* ---- assembly generation (codegen/dfg.py) ----
    evm_fn,                 \* ctx.basic_blocks: the instructions of each block
    assembly,               \* the emitted assembly: [text, inst] (inst is history)
    use_count,              \* variable -> the uses still to be emitted
    evm_visited,            \* visited_instructions of dfg.py: instruction ids
    visited_basicblocks,    \* the blocks whose code is emitted
    evm_calls,              \* the pending calls of _generate_evm_for_basicblock_r
    epc,
    \* ---- SCCP (passes/sccp.py) ----
    sccp_fn,                \* the function in SSA form: the instructions of each block
    lattice,                \* SCCP.lattice: variable -> TOP, BOTTOM or a constant
    executed,               \* the CFG edges found executable
    cfg_worklist,           \* the CFG edges to process
    ssa_worklist,           \* the variables whose lattice value changed
    kpc,
    \* ---- bb_optimizer: removal of empty blocks ----
    eb_blocks,              \* ctx.basic_blocks: [label, is_symbol, instructions]
    data_segment,           \* ctx.data_segment: the labels of its db instructions
    eb_before,              \* the blocks and data segment before the removal (history)
    eb_i,                   \* the index i of the loop
    eb_count,               \* the number of blocks removed
    bpc,
    \* ---- NormalizationPass ----
    nm_blocks,              \* ctx.basic_blocks: [label, instructions]
    nm_cfg_in,              \* label -> cfg_in of the block, as labels
    nm_cfg_out,             \* label -> cfg_out of the block, as labels
    nm_data,                \* ctx.data_segment: the labels of its db instructions
    nm_before,              \* the function before the pass (history)
    nm_i,                   \* the place of the loop of _run_pass in basic_blocks
    changes,                \* NormalizationPass.changes
    npc,
    \* ---- lowering of if nodes ----
    cv_ir,                  \* the IRnode tree given to ir_node_to_venom
    cv_blocks,              \* ctx.basic_blocks
    cv_log,                 \* per lowered if: the blocks it made (history)
    cv_failed,              \* an assertion of append_instruction failed
    vpc,
    \* ---- bb_optimizer: _calculate_liveness ----
    lv_out_set,             \* block -> its out_set, in iteration order
    liveness_visited,       \* block -> the out_bb last recorded for it (0: none)
    lv_stack,               \* the calls in progress: [bb, i, entered]
    lv_out_vars,            \* block -> bb.out_vars
    lv_in_vars,             \* block -> the variables live at its head
    ypc

lowVars == <<basic_blocks, walked, lpc>>
cfgVars == <<fn, cfg_in, cfg_out, cpc>>
cacheVars == <<analyses_cache, computed_before, last_op>>
phiVars == <<phi_insts, phi_cfg_in, ppc>>
aliasVars == <<loc_a, loc_b, alias_asked, alias_ans>>
ssaVars == <<ssa_fn, ssa_cfg_in, next_version, memory_defs, def_keys, memory_uses,
             memory_phis, spc>>
clobVars == <<clob_prog, clob_ans>>
walkVars == <<walk_fn, walk_ssa, walk_ans>>
rleVars == <<rle_insts, rle_orig, available_loads_per_block, replacements, rpc>>
inlVars == <<ctx_functions, ctx_before, fcg, call_walk, walk_pos, inline_count, last_label,
             inlined, ipc>>
dftVars == <<dft_fn, dft_out, dft_fence, fence_id, visited_instructions, dpc>>
mvVars == <<m2v_insts, m2v_before, m2v_todo, var_name_count, last_variable, mpc>>
optVars == <<opt_blocks, opt_before, removed_log, removed, opc>>
evmVars == <<evm_fn, assembly, use_count, evm_visited, visited_basicblocks, evm_calls, epc>>
sccpVars == <<sccp_fn, lattice, executed, cfg_worklist, ssa_worklist, kpc>>
ebVars == <<eb_blocks, data_segment, eb_before, eb_i, eb_count, bpc>>
nmVars == <<nm_blocks, nm_cfg_in, nm_cfg_out, nm_data, nm_before, nm_i, changes, npc>>
cvVars == <<cv_ir, cv_blocks, cv_log, cv_failed, vpc>>
lvVars == <<lv_out_set, liveness_visited, lv_stack, lv_out_vars, lv_in_vars, ypc>>
vars == <<lowVars, cfgVars, cacheVars, phiVars, aliasVars, ssaVars, clobVars, walkVars,
          rleVars, inlVars,
          dftVars,
          mvVars,
          optVars,
          evmVars,
          sccpVars,
          ebVars,
          nmVars,
          cvVars,
          lvVars>>

\* The variables each component leaves alone.
notLow ==
    <<cfgVars, cacheVars, phiVars, aliasVars, ssaVars, clobVars, walkVars, rleVars, inlVars, dftVars, mvVars, optVars, evmVars, sccpVars, ebVars, nmVars, cvVars, lvVars>>
notCfg ==
    <<lowVars, cacheVars, phiVars, aliasVars, ssaVars, clobVars, walkVars, rleVars, inlVars, dftVars, mvVars, optVars, evmVars, sccpVars, ebVars, nmVars, cvVars, lvVars>>
notCache ==
    <<lowVars, cfgVars, phiVars, aliasVars, ssaVars, clobVars, walkVars, rleVars, inlVars, dftVars, mvVars, optVars, evmVars, sccpVars, ebVars, nmVars, cvVars, lvVars>>
notPhi ==
    <<lowVars, cfgVars, cacheVars, aliasVars, ssaVars, clobVars, walkVars, rleVars, inlVars, dftVars, mvVars, optVars, evmVars, sccpVars, ebVars, nmVars, cvVars, lvVars>>
notAlias ==
    <<lowVars, cfgVars, cacheVars, phiVars, ssaVars, clobVars, walkVars, rleVars, inlVars, dftVars, mvVars, optVars, evmVars, sccpVars, ebVars, nmVars, cvVars, lvVars>>
notSsa ==
    <<lowVars, cfgVars, cacheVars, phiVars, aliasVars, clobVars, walkVars, rleVars, inlVars, dftVars, mvVars, optVars, evmVars, sccpVars, ebVars, nmVars, cvVars, lvVars>>
notClob ==
    <<lowVars, cfgVars, cacheVars, phiVars, aliasVars, ssaVars, walkVars, rleVars, inlVars, dftVars, mvVars, optVars, evmVars, sccpVars, ebVars, nmVars, cvVars, lvVars>>
notWalk ==
    <<lowVars, cfgVars, cacheVars, phiVars, aliasVars, ssaVars, clobVars, rleVars, inlVars, dftVars, mvVars, optVars, evmVars, sccpVars, ebVars, nmVars, cvVars, lvVars>>
notRle ==
    <<lowVars, cfgVars, cacheVars, phiVars, aliasVars, ssaVars, clobVars, walkVars, inlVars, dftVars, mvVars, optVars, evmVars, sccpVars, ebVars, nmVars, cvVars, lvVars>>
notInl ==
    <<lowVars, cfgVars, cacheVars, phiVars, aliasVars, ssaVars, clobVars, walkVars, rleVars, dftVars, mvVars, optVars, evmVars, sccpVars, ebVars, nmVars, cvVars, lvVars>>
notDft ==
    <<lowVars, cfgVars, cacheVars, phiVars, aliasVars, ssaVars, clobVars, walkVars, rleVars, inlVars, mvVars, optVars, evmVars, sccpVars, ebVars, nmVars, cvVars, lvVars>>
notMv ==
    <<lowVars, cfgVars, cacheVars, phiVars, aliasVars, ssaVars, clobVars, walkVars, rleVars, inlVars, dftVars, optVars, evmVars, sccpVars, ebVars, nmVars, cvVars, lvVars>>
notOpt ==
    <<lowVars, cfgVars, cacheVars, phiVars, aliasVars, ssaVars, clobVars, walkVars, rleVars, inlVars, dftVars, mvVars, evmVars, sccpVars, ebVars, nmVars, cvVars, lvVars>>
notEvm ==
    <<lowVars, cfgVars, cacheVars, phiVars, aliasVars, ssaVars, clobVars, walkVars, rleVars, inlVars, dftVars, mvVars, optVars, sccpVars, ebVars, nmVars, cvVars, lvVars>>
notSccp ==
    <<lowVars, cfgVars, cacheVars, phiVars, aliasVars, ssaVars, clobVars, walkVars, rleVars, inlVars, dftVars, mvVars, optVars, evmVars, ebVars, nmVars, cvVars, lvVars>>
notEb ==
    <<lowVars, cfgVars, cacheVars, phiVars, aliasVars, ssaVars, clobVars, walkVars, rleVars, inlVars, dftVars, mvVars, optVars, evmVars, sccpVars, nmVars, cvVars, lvVars>>
notNm ==
    <<lowVars, cfgVars, cacheVars, phiVars, aliasVars, ssaVars, clobVars, walkVars, rleVars, inlVars, dftVars, mvVars, optVars, evmVars, sccpVars, ebVars, cvVars, lvVars>>
notCv ==
    <<lowVars, cfgVars, cacheVars, phiVars, aliasVars, ssaVars, clobVars, walkVars, rleVars, inlVars, dftVars, mvVars, optVars, evmVars, sccpVars, ebVars, nmVars, lvVars>>
notLv ==
    <<lowVars, cfgVars, cacheVars, phiVars, aliasVars, ssaVars, clobVars, walkVars, rleVars, inlVars, dftVars, mvVars, optVars, evmVars, sccpVars, ebVars, nmVars, cvVars>>

(***************************************************************************)
(* Bounds of the model.                                                    *)
(***************************************************************************)
MaxBlocks == 3
MaxWalkInsts == 3

(***************************************************************************)
(* IR: opcodes, instructions, basic blocks (basicblock.py).                *)
(***************************************************************************)
BB_TERMINATORS == {"jmp", "djmp", "jnz", "ret", "return", "stop", "exit"}

CFG_ALTERING_INSTRUCTIONS == {"jmp", "djmp", "jnz"}

\* An instruction: its opcode and its label operands, in operand order.
Inst(op, labels) == [opcode |-> op, labels |-> labels]

is_bb_terminator(inst) == inst.opcode \in BB_TERMINATORS

is_terminated(bb) ==
    IF Len(bb.instructions) = 0
    THEN FALSE
    ELSE is_bb_terminator(bb.instructions[Len(bb.instructions)])

IRBasicBlock(label) == [label |-> label, instructions |-> <<>>]

append_instruction(bb, inst) ==
    [bb EXCEPT !.instructions = Append(@, inst)]

(***************************************************************************)
(* Lowering: the tree walk appends blocks and instructions; the patch-up   *)
(* loop of ir_node_to_venom then terminates every unterminated block.      *)
(***************************************************************************)
\* The opcodes the tree walk appends: every terminator, and three opcodes
\* that are not in BB_TERMINATORS.
WalkOpcodes == BB_TERMINATORS \cup {"revert", "add", "mstore"}

RECURSIVE SumLen(_, _)
SumLen(bbs, i) ==
    IF i = 0 THEN 0 ELSE Len(bbs[i].instructions) + SumLen(bbs, i - 1)

LowInit ==
    /\ basic_blocks = <<IRBasicBlock(1)>>
    /\ walked = <<>>
    /\ lpc = "walk"

LowIdle ==
    /\ basic_blocks = <<>>
    /\ walked = <<>>
    /\ lpc = "idle"

\* bb.append_instruction(opcode, ...) during the walk: asserts the block is
\* not terminated.
AppendInstruction(b, op) ==
    /\ lpc = "walk"
    /\ ~is_terminated(basic_blocks[b])
    /\ SumLen(basic_blocks, Len(basic_blocks)) < MaxWalkInsts
    /\ basic_blocks' = [basic_blocks EXCEPT ![b] = append_instruction(@, Inst(op, <<>>))]
    /\ UNCHANGED <<walked, lpc, notLow>>

\* ctx.append_basic_block(IRBasicBlock(ctx.get_next_label(), ctx))
AppendBasicBlock ==
    /\ lpc = "walk"
    /\ Len(basic_blocks) < MaxBlocks
    /\ basic_blocks' = Append(basic_blocks, IRBasicBlock(Len(basic_blocks) + 1))
    /\ UNCHANGED <<walked, lpc, notLow>>

\* One iteration of the patch-up loop, for block i of the list bbs.
PatchedBlockNoStop(bbs, i) ==
    IF is_terminated(bbs[i])
    THEN bbs[i]
    ELSE IF i < Len(bbs)
         THEN append_instruction(bbs[i], Inst("jmp", <<bbs[i + 1].label>>))
         ELSE bbs[i]

PatchedBlock(bbs, i) ==
    IF is_terminated(bbs[i])
    THEN bbs[i]
    ELSE IF i < Len(bbs)
         THEN append_instruction(bbs[i], Inst("jmp", <<bbs[i + 1].label>>))
         ELSE append_instruction(bbs[i], Inst("stop", <<>>))

\* The walk returns; the patch-up loop runs over every block; the function
\* is returned.
PatchUp ==
    /\ lpc = "walk"
    /\ walked' = basic_blocks
    /\ basic_blocks' = [i \in 1..Len(basic_blocks) |-> PatchedBlock(basic_blocks, i)]
    /\ lpc' = "done"
    /\ UNCHANGED notLow

LowNext ==
    \/ \E b \in 1..Len(basic_blocks), op \in WalkOpcodes : AppendInstruction(b, op)
    \/ AppendBasicBlock
    \/ PatchUp


(***************************************************************************)
(* OrderedSet (vyper.utils): a sequence without duplicates, in insertion   *)
(* order.                                                                  *)
(***************************************************************************)
Range(s) == {s[i] : i \in 1..Len(s)}

OSAdd(s, x) == IF x \in Range(s) THEN s ELSE Append(s, x)

(***************************************************************************)
(* CFG analysis (analysis/cfg.py).                                         *)
(***************************************************************************)
NumCfgBlocks == 2

CfgBlocks == 1..NumCfgBlocks

\* fn.get_basic_block(label): the index of the block carrying the label.
get_basic_block(f, label) == CHOOSE b \in 1..Len(f) : f[b].label = label

EmptySets(f) == [b \in 1..Len(f) |-> <<>>]

\* for op in inst.get_label_operands(): get_basic_block(op).add_cfg_in(bb)
RECURSIVE AddLabelEdges(_, _, _, _, _)
AddLabelEdges(cin, f, a, labels, j) ==
    IF j > Len(labels)
    THEN cin
    ELSE AddLabelEdges(
             [cin EXCEPT ![get_basic_block(f, labels[j])] = OSAdd(@, a)],
             f, a, labels, j + 1)

\* Mutant: every instruction with label operands contributes edges.
InstEdgesAnyOpcode(cin, f, a, inst) == AddLabelEdges(cin, f, a, inst.labels, 1)

\* if inst.opcode in CFG_ALTERING_INSTRUCTIONS: add an edge per label operand
InstEdges(cin, f, a, inst) ==
    IF inst.opcode \in CFG_ALTERING_INSTRUCTIONS
    THEN AddLabelEdges(cin, f, a, inst.labels, 1)
    ELSE cin

\* for inst in bb.instructions
RECURSIVE ScanInstructions(_, _, _, _)
ScanInstructions(cin, f, a, k) ==
    IF k > Len(f[a].instructions)
    THEN cin
    ELSE ScanInstructions(InstEdges(cin, f, a, f[a].instructions[k]), f, a, k + 1)

\* for bb in fn.get_basic_blocks(): (second loop of analyze)
RECURSIVE ScanBlocks(_, _, _)
ScanBlocks(cin, f, a) ==
    IF a > Len(f)
    THEN cin
    ELSE ScanBlocks(ScanInstructions(cin, f, a, 1), f, a + 1)

\* for in_bb in bb.cfg_in: in_bb.add_cfg_out(bb)
RECURSIVE MirrorBlock(_, _, _, _)
MirrorBlock(cout, cin, b, j) ==
    IF j > Len(cin[b])
    THEN cout
    ELSE MirrorBlock([cout EXCEPT ![cin[b][j]] = OSAdd(@, b)], cin, b, j + 1)

\* for bb in fn.get_basic_blocks(): (third loop of analyze)
RECURSIVE MirrorBlocks(_, _, _)
MirrorBlocks(cout, cin, b) ==
    IF b > Len(cin)
    THEN cout
    ELSE MirrorBlocks(MirrorBlock(cout, cin, b, 1), cin, b + 1)

\* The asserts of analyze: no block is empty, every block ends in a
\* terminator.
AllTerminated(f) == \A b \in 1..Len(f) : is_terminated(f[b])

\* The terminators a block of the analysed function may end in.
CfgTerminators ==
    {Inst("stop", <<>>)}
    \cup {Inst("jmp", <<l>>) : l \in CfgBlocks}
    \cup {Inst("jnz", <<l1, l2>>) : l1 \in CfgBlocks, l2 \in CfgBlocks}
    \cup {Inst("djmp", <<l>>) : l \in CfgBlocks}

\* The entry block's label is the function's name (IRContext.create_function),
\* so a recursive invoke carries the entry block's label as an operand.
CfgLeads == {<<>>, <<Inst("invoke", <<1>>)>>}

CfgInit ==
    /\ \E lead \in CfgLeads, terms \in [CfgBlocks -> CfgTerminators] :
          fn = [b \in CfgBlocks |->
                  [label |-> b,
                   instructions |-> (IF b = 1 THEN lead ELSE <<>>) \o <<terms[b]>>]]
    /\ cfg_in = [b \in CfgBlocks |-> <<>>]
    /\ cfg_out = [b \in CfgBlocks |-> <<>>]
    /\ cpc = "fresh"

CfgIdle ==
    /\ fn = <<>>
    /\ cfg_in = <<>>
    /\ cfg_out = <<>>
    /\ cpc = "idle"

\* CFGAnalysis.analyze
Analyze ==
    /\ cpc \in {"fresh", "invalidated", "mutated", "analyzed"}
    /\ AllTerminated(fn)
    /\ LET cleared == EmptySets(fn)
           cin == ScanBlocks(cleared, fn, 1)
       IN /\ cfg_in' = cin
          /\ cfg_out' = MirrorBlocks(cleared, cin, 1)
    /\ cpc' = "analyzed"
    /\ UNCHANGED <<fn, notCfg>>

\* CFGAnalysis.invalidate: the per-block sets are cleared.
Invalidate ==
    /\ cpc = "analyzed"
    /\ cfg_in' = EmptySets(fn)
    /\ cfg_out' = EmptySets(fn)
    /\ cpc' = "invalidated"
    /\ UNCHANGED <<fn, notCfg>>

\* IRInstruction.replace_label_operands({old: new}) on the terminator of
\* the entry block, as a pass does when it retargets a jump; the CFG sets
\* are left as they were.
replace_label_operands(inst, old, new) ==
    [inst EXCEPT !.labels = [j \in 1..Len(inst.labels) |->
                               IF inst.labels[j] = old THEN new ELSE inst.labels[j]]]

RetargetEntry(old, new) ==
    /\ cpc = "analyzed"
    /\ old # new
    /\ LET n == Len(fn[1].instructions)
       IN /\ old \in Range(fn[1].instructions[n].labels)
          /\ fn' = [fn EXCEPT ![1].instructions[n] = replace_label_operands(@, old, new)]
    /\ cpc' = "mutated"
    /\ UNCHANGED <<cfg_in, cfg_out, notCfg>>

CfgNext ==
    \/ Analyze
    \/ Invalidate
    \/ \E old \in CfgBlocks, new \in CfgBlocks : RetargetEntry(old, new)

(***************************************************************************)
(* Analysis cache: request_analysis, invalidate_analysis and the           *)
(* invalidate() hooks of the analyses.                                     *)
(***************************************************************************)
Analyses ==
    {"CFGAnalysis", "DominatorTreeAnalysis", "LivenessAnalysis",
     "DFGAnalysis", "MemSSA", "FCGAnalysis"}

\* CFGAnalysis.invalidate: the analyses it invalidates, in call order.
CFGInvalidates == <<"DominatorTreeAnalysis", "DFGAnalysis", "LivenessAnalysis">>

\* FCGAnalysis.invalidate: pass.
FCGInvalidates == <<>>

\* DFGAnalysis.invalidate: Memory SSA and liveness (the dependency graph of
\* the specification; the class is not among the sources).
DFGInvalidates == <<"MemSSA", "LivenessAnalysis">>

\* The invalidate() hook of each analysis class.
InvalidateHook(a) ==
    CASE a = "CFGAnalysis" -> CFGInvalidates
      [] a = "FCGAnalysis" -> FCGInvalidates
      [] a = "DFGAnalysis" -> DFGInvalidates
      [] OTHER -> <<>>

\* IRAnalysesCache.invalidate_analysis: pop the cached result and, if there
\* was one, run its invalidate() hook.
RECURSIVE invalidate_analysis(_, _)
RECURSIVE InvalidateEach(_, _, _)
invalidate_analysis(cache, a) ==
    IF a \notin cache
    THEN cache
    ELSE InvalidateEach(cache \ {a}, InvalidateHook(a), 1)

InvalidateEach(cache, list, j) ==
    IF j > Len(list)
    THEN cache
    ELSE InvalidateEach(invalidate_analysis(cache, list[j]), list, j + 1)

\* MemSSA.run_pass requests CFG, dominators and liveness before it builds,
\* and invalidates liveness when it is done.
MemSSARequests == <<"CFGAnalysis", "DominatorTreeAnalysis", "LivenessAnalysis">>

MemSSAInvalidates == <<"LivenessAnalysis">>

RequestsOf(a) == IF a = "MemSSA" THEN MemSSARequests ELSE <<>>

InvalidatesAfter(a) == IF a = "MemSSA" THEN MemSSAInvalidates ELSE <<>>

\* IRAnalysesCache.request_analysis, the cache after it: a cached result is
\* returned as is; otherwise the analysis is entered in the cache and run.
RECURSIVE request_analysis(_, _)
RECURSIVE RequestEach(_, _, _)
request_analysis(cache, a) ==
    IF a \in cache
    THEN cache
    ELSE InvalidateEach(RequestEach(cache \cup {a}, RequestsOf(a), 1),
                        InvalidatesAfter(a), 1)

RequestEach(cache, list, j) ==
    IF j > Len(list)
    THEN cache
    ELSE RequestEach(request_analysis(cache, list[j]), list, j + 1)

CacheInit ==
    /\ analyses_cache = {}
    /\ computed_before = {}
    /\ last_op = [op |-> "none"]

CacheIdle ==
    /\ analyses_cache = {}
    /\ computed_before = {}
    /\ last_op = [op |-> "idle"]

\* A pass or an analysis requests analysis a.
RequestAnalysis(a) ==
    /\ last_op.op # "idle"
    /\ analyses_cache' = request_analysis(analyses_cache, a)
    \* results computed by this request are new; results dropped are gone
    /\ computed_before' = computed_before \cap analyses_cache \cap analyses_cache'
    /\ last_op' = [op |-> "request", analysis |-> a,
                   cached |-> (a \in analyses_cache),
                   stale |-> (a \in analyses_cache /\ a \in computed_before)]
    /\ UNCHANGED notCache

\* A pass invalidates analysis a.
InvalidateAnalysis(a) ==
    /\ last_op.op # "idle"
    /\ analyses_cache' = invalidate_analysis(analyses_cache, a)
    /\ computed_before' =
          IF a = "CFGAnalysis" /\ a \in analyses_cache
          THEN analyses_cache'
          ELSE computed_before \cap analyses_cache'
    /\ last_op' = [op |-> "invalidate", analysis |-> a,
                   cached |-> (a \in analyses_cache), stale |-> FALSE]
    /\ UNCHANGED notCache

CacheNext ==
    \/ \E a \in Analyses : RequestAnalysis(a)
    \/ \E a \in Analyses : InvalidateAnalysis(a)

(***************************************************************************)
(* Phi instructions of a block whose predecessors change                   *)
(* (IRBasicBlock.fix_phi_instructions, IRInstruction.remove_phi_operand).  *)
(***************************************************************************)
NumPreds == 4
MaxPhis == 2

Label(l) == [kind |-> "label", value |-> l]

Var(v) == [kind |-> "var", value |-> v]

\* The instruction list of phis is (label_1, val_1, label_2, val_2, ...).
RECURSIVE PhiOperands(_, _)
PhiOperands(preds, j) ==
    IF j > Len(preds)
    THEN <<>>
    ELSE <<Label(preds[j]), Var(preds[j])>> \o PhiOperands(preds, j + 1)

\* del self.operands[i : i + 2]
DelPair(ops, i) ==
    [k \in 1..(Len(ops) - 2) |-> IF k < i THEN ops[k] ELSE ops[k + 2]]

\* IRInstruction.remove_phi_operand: the first pair whose label is `label`
\* is deleted from the operand list, in place.
RECURSIVE remove_phi_operand_from(_, _, _)
remove_phi_operand_from(ops, label, i) ==
    IF i > Len(ops)
    THEN ops
    ELSE IF ops[i] = label
         THEN DelPair(ops, i)
         ELSE remove_phi_operand_from(ops, label, i + 2)

remove_phi_operand(ops, label) == remove_phi_operand_from(ops, label, 1)

\* for label in inst.get_label_operands(): the generator walks the operand
\* list by position while remove_phi_operand deletes from that same list.
RECURSIVE TrimOperands(_, _, _)
TrimOperands(ops, idx, cfg_in_labels) ==
    IF idx > Len(ops)
    THEN ops
    ELSE IF ops[idx].kind = "label" /\ ops[idx].value \notin Range(cfg_in_labels)
         THEN TrimOperands(remove_phi_operand(ops, ops[idx]), idx + 1, cfg_in_labels)
         ELSE TrimOperands(ops, idx + 1, cfg_in_labels)

\* The body of the loop of fix_phi_instructions for one instruction.
FixInstruction(inst, cfg_in_labels) ==
    IF inst.opcode # "phi"
    THEN inst
    ELSE LET ops == TrimOperands(inst.operands, 1, cfg_in_labels)
         IN  IF Len(ops) = 2
             THEN [inst EXCEPT !.opcode = "store", !.operands = <<ops[2]>>]
             ELSE IF Len(ops) = 0
                  THEN [opcode |-> "nop", operands |-> <<>>, output |-> 0]
                  ELSE [inst EXCEPT !.operands = ops]

\* needs_sort: some phi had an operand whose label is not in cfg_in.
NeedsSort(insts, cfg_in_labels) ==
    \E k \in 1..Len(insts) :
        /\ insts[k].opcode = "phi"
        /\ \E j \in 1..Len(insts[k].operands) :
              /\ insts[k].operands[j].kind = "label"
              /\ insts[k].operands[j].value \notin Range(cfg_in_labels)

IsPhi(inst) == inst.opcode = "phi"

IsNotPhi(inst) == inst.opcode # "phi"

\* self.instructions.sort(key=lambda inst: inst.opcode != "phi"): stable
SortPhisFirst(insts) == SelectSeq(insts, IsPhi) \o SelectSeq(insts, IsNotPhi)

fix_phi_instructions(insts, cfg_in_labels) ==
    LET fixed == [k \in 1..Len(insts) |-> FixInstruction(insts[k], cfg_in_labels)]
    IN  IF NeedsSort(insts, cfg_in_labels) THEN SortPhisFirst(fixed) ELSE fixed

\* Block B as MakeSSA leaves it: phis with one (label, value) pair per
\* predecessor, in predecessor order, then the body.
PhiInit ==
    /\ \E n \in 1..NumPreds, m \in 1..MaxPhis :
          /\ phi_cfg_in = [j \in 1..n |-> j]
          /\ phi_insts =
                [k \in 1..m |-> [opcode |-> "phi",
                                 operands |-> PhiOperands([j \in 1..n |-> j], 1),
                                 output |-> k]]
                \o <<[opcode |-> "add", operands |-> <<Var(1), Var(2)>>, output |-> MaxPhis + 1],
                     [opcode |-> "stop", operands |-> <<>>, output |-> 0]>>
    /\ ppc = "built"

PhiIdle ==
    /\ phi_insts = <<>>
    /\ phi_cfg_in = <<>>
    /\ ppc = "idle"

\* IRBasicBlock.remove_cfg_in: a pass removes the edge from predecessor p.
RemoveCfgIn(p) ==
    /\ ppc \in {"built", "changed"}
    /\ p \in Range(phi_cfg_in)
    /\ phi_cfg_in' = SelectSeq(phi_cfg_in, LAMBDA q : q # p)
    /\ ppc' = "changed"
    /\ UNCHANGED <<phi_insts, notPhi>>

\* IRBasicBlock.fix_phi_instructions
FixPhiInstructions ==
    /\ ppc \in {"built", "changed"}
    /\ phi_insts' = fix_phi_instructions(phi_insts, phi_cfg_in)
    /\ ppc' = "fixed"
    /\ UNCHANGED <<phi_cfg_in, notPhi>>

\* The pass goes on to change the CFG after a fix.
ContinuePass ==
    /\ ppc = "fixed"
    /\ ppc' = "changed"
    /\ UNCHANGED <<phi_insts, phi_cfg_in, notPhi>>

PhiNext ==
    \/ \E p \in 1..NumPreds : RemoveCfgIn(p)
    \/ FixPhiInstructions
    \/ ContinuePass

(***************************************************************************)
(* Memory locations and the alias oracle (MemoryLocation, may_alias,       *)
(* completely_overlaps).  The module that defines them is not among the    *)
(* sources; the definitions follow section 4.6 of the specification and    *)
(* the behaviour test_may_alias expects.                                   *)
(***************************************************************************)
MaxOffset == 3
MaxSize == 3

EMPTY_MEMORY_ACCESS == [kind |-> "EMPTY", offset |-> 0, size |-> 0]

FULL_MEMORY_ACCESS == [kind |-> "FULL", offset |-> 0, size |-> 0]

MemoryLocation(offset, size) == [kind |-> "range", offset |-> offset, size |-> size]

MemoryLocations ==
    {EMPTY_MEMORY_ACCESS, FULL_MEMORY_ACCESS}
        \cup {MemoryLocation(o, sz) : o \in 0..MaxOffset, sz \in 0..MaxSize}

\* A location that covers no byte: EMPTY or a range of size zero.
IsEmptyLocation(loc) == loc.kind = "EMPTY" \/ (loc.kind = "range" /\ loc.size <= 0)

\* Mutant of may_alias: ranges compared as closed intervals.
may_alias_closed(a, b) ==
    IF IsEmptyLocation(a) \/ IsEmptyLocation(b)
    THEN FALSE
    ELSE IF a.kind = "FULL" \/ b.kind = "FULL"
         THEN TRUE
         ELSE ~(a.offset + a.size < b.offset \/ b.offset + b.size < a.offset)

\* EMPTY aliases nothing, FULL aliases any non-empty location, two ranges
\* alias iff [o, o + s) intersect: end1 <= start2 or end2 <= start1 means
\* they are disjoint.
may_alias(a, b) ==
    IF IsEmptyLocation(a) \/ IsEmptyLocation(b)
    THEN FALSE
    ELSE IF a.kind = "FULL" \/ b.kind = "FULL"
         THEN TRUE
         ELSE ~(a.offset + a.size <= b.offset \/ b.offset + b.size <= a.offset)

\* Mutant of completely_overlaps: only the start of the range is compared.
completely_overlaps_start(a, b) ==
    IF a.kind = "FULL"
    THEN TRUE
    ELSE IF IsEmptyLocation(b)
         THEN TRUE
         ELSE IF b.kind = "FULL" \/ IsEmptyLocation(a)
              THEN FALSE
              ELSE a.offset <= b.offset

\* a fully contains b: FULL contains everything, a location that covers no
\* byte is contained in everything, a range contains the ranges that start
\* and end inside it.
completely_overlaps(a, b) ==
    IF a.kind = "FULL"
    THEN TRUE
    ELSE IF IsEmptyLocation(b)
         THEN TRUE
         ELSE IF b.kind = "FULL" \/ IsEmptyLocation(a)
              THEN FALSE
              ELSE a.offset <= b.offset /\ b.offset + b.size <= a.offset + a.size

AliasInit ==
    /\ loc_a \in MemoryLocations
    /\ loc_b \in MemoryLocations
    /\ alias_asked = {}
    /\ alias_ans = [may_alias |-> FALSE, completely_overlaps |-> FALSE]

AliasIdle ==
    /\ loc_a = EMPTY_MEMORY_ACCESS
    /\ loc_b = EMPTY_MEMORY_ACCESS
    /\ alias_asked = {"idle"}
    /\ alias_ans = [may_alias |-> FALSE, completely_overlaps |-> FALSE]

\* alias.may_alias(loc_a, loc_b)
QueryMayAlias ==
    /\ "idle" \notin alias_asked
    /\ alias_asked' = alias_asked \cup {"may_alias"}
    /\ alias_ans' = [alias_ans EXCEPT !.may_alias = may_alias(loc_a, loc_b)]
    /\ UNCHANGED <<loc_a, loc_b, notAlias>>

\* loc_a.completely_overlaps(loc_b)
QueryCompletelyOverlaps ==
    /\ "idle" \notin alias_asked
    /\ alias_asked' = alias_asked \cup {"completely_overlaps"}
    /\ alias_ans' = [alias_ans EXCEPT
                        !.completely_overlaps = completely_overlaps(loc_a, loc_b)]
    /\ UNCHANGED <<loc_a, loc_b, notAlias>>

AliasNext == QueryMayAlias \/ QueryCompletelyOverlaps

(***************************************************************************)
(* Dominators (DominatorTreeAnalysis).  The module is not among the        *)
(* sources; dominance, immediate dominators, dominance frontiers and the   *)
(* walk of the dominator tree are the textbook definitions over cfg_in,    *)
(* with block 1 the entry.                                                 *)
(***************************************************************************)
\* The blocks reachable from the entry on paths that avoid block `avoid`.
RECURSIVE ReachAvoiding(_, _, _)
ReachAvoiding(cin, seen, avoid) ==
    LET more == seen \cup {y \in (DOMAIN cin) \ {avoid} :
                              \E p \in seen : p \in Range(cin[y])}
    IN  IF more = seen THEN seen ELSE ReachAvoiding(cin, more, avoid)

\* d dominates b: every path from the entry to b goes through d.
Dominates(cin, d, b) ==
    \/ d = b
    \/ d = 1
    \/ b \notin ReachAvoiding(cin, {1}, d)

StrictDominators(cin, b) == {d \in DOMAIN cin : d # b /\ Dominates(cin, d, b)}

\* immediate_dominators[b]; 0 stands for None (the entry has none).
immediate_dominator(cin, b) ==
    IF b = 1
    THEN 0
    ELSE CHOOSE d \in StrictDominators(cin, b) :
             \A e \in StrictDominators(cin, b) : Dominates(cin, e, d)

immediate_dominators(cin) == [b \in DOMAIN cin |-> immediate_dominator(cin, b)]

\* dominator_frontiers[x], as a set
dominator_frontier(cin, x) ==
    {y \in DOMAIN cin :
        \E p \in Range(cin[y]) :
            Dominates(cin, x, p) /\ ~(x # y /\ Dominates(cin, x, y))}

\* dfs_walk: the dominator tree in preorder, children in block order.
RECURSIVE DomTreeWalk(_, _, _)
DomTreeWalk(idom, b, c) ==
    IF c > Len(idom)
    THEN <<>>
    ELSE (IF idom[c] = b THEN <<c>> \o DomTreeWalk(idom, c, 1) ELSE <<>>)
             \o DomTreeWalk(idom, b, c + 1)

dfs_walk(idom) == <<1>> \o DomTreeWalk(idom, 1, 1)

(***************************************************************************)
(* Memory SSA (passes/mem_ssa.py).                                         *)
(***************************************************************************)
MaxMemOps == 3

\* Accesses are named by kind and number; None is <<"none", 0>>.
None == <<"none", 0>>

DefId(version) == <<"def", version>>

PhiId(block) == <<"phi", block>>

BlockId(block) == <<"bb", block>>

NoPhi == [present |-> FALSE, version |-> 0, operands |-> <<>>]

\* The control-flow shapes of the functions the pass is run on, as the
\* terminators of blocks 1..4: a chain, a diamond, an if without else, a
\* loop, and a loop whose header also jumps to itself.
SsaShapes ==
    { <<Inst("jmp", <<2>>), Inst("jmp", <<3>>), Inst("jmp", <<4>>), Inst("stop", <<>>)>>,
      <<Inst("jnz", <<2, 3>>), Inst("jmp", <<4>>), Inst("jmp", <<4>>), Inst("stop", <<>>)>>,
      <<Inst("jnz", <<2, 3>>), Inst("jmp", <<3>>), Inst("jmp", <<4>>), Inst("stop", <<>>)>>,
      <<Inst("jmp", <<2>>), Inst("jnz", <<3, 4>>), Inst("jmp", <<2>>), Inst("stop", <<>>)>>,
      <<Inst("jmp", <<2>>), Inst("jnz", <<2, 3>>), Inst("jnz", <<2, 4>>), Inst("stop", <<>>)>> }

\* The loads and stores of one block, in order.
SsaBodies ==
    { <<>>, <<"mstore">>, <<"mload">>, <<"mload", "mstore">>, <<"mstore", "mload">>,
      <<"mstore", "mstore">> }

BodyInsts(body) == [k \in 1..Len(body) |-> Inst(body[k], <<>>)]

\* _process_block_definitions: a MemoryDef per store, a MemoryUse per load.
\* m is [next_version, defs, keys, uses].
RECURSIVE process_block_definitions(_, _, _, _)
process_block_definitions(m, f, block, k) ==
    IF k > Len(f[block].instructions)
    THEN m
    ELSE LET opcode == f[block].instructions[k].opcode
         IN  IF opcode = "mstore"
             THEN process_block_definitions(
                      [m EXCEPT !.defs[block] =
                                    Append(@, [version |-> m.next_version, pos |-> k]),
                                !.keys = OSAdd(@, block),
                                !.next_version = @ + 1],
                      f, block, k + 1)
             ELSE IF opcode = "mload"
                  THEN process_block_definitions(
                           [m EXCEPT !.uses[block] =
                                         Append(@, [version |-> m.next_version,
                                                    pos |-> k,
                                                    reaching_def |-> None]),
                                     !.next_version = @ + 1],
                           f, block, k + 1)
                  ELSE process_block_definitions(m, f, block, k + 1)

\* for bb in self.dom.dfs_walk: self._process_block_definitions(bb)
RECURSIVE ProcessWalk(_, _, _, _)
ProcessWalk(m, f, walk, j) ==
    IF j > Len(walk)
    THEN m
    ELSE ProcessWalk(process_block_definitions(m, f, walk[j], 1), f, walk, j + 1)

\* _get_reaching_def(block): the block's phi, else its last def, else what
\* the immediate dominator gives when the block has predecessors, else None.
RECURSIVE get_reaching_def(_, _, _, _, _)
get_reaching_def(block, phis, defs, cin, idom) ==
    IF phis[block].present
    THEN PhiId(block)
    ELSE IF Len(defs[block]) > 0
         THEN DefId(defs[block][Len(defs[block])].version)
         ELSE IF Len(cin[block]) > 0
              THEN IF idom[block] # 0
                   THEN get_reaching_def(idom[block], phis, defs, cin, idom)
                   ELSE None
              ELSE None

\* for pred in frontier.cfg_in: an operand (reaching_def, pred) unless the
\* reaching def is None.
RECURSIVE PhiOperandsFor(_, _, _, _, _, _)
PhiOperandsFor(frontier, j, phis, defs, cin, idom) ==
    IF j > Len(cin[frontier])
    THEN <<>>
    ELSE LET pred == cin[frontier][j]
             reaching_def == get_reaching_def(pred, phis, defs, cin, idom)
         IN  (IF reaching_def # None THEN <<<<reaching_def, pred>>>> ELSE <<>>)
                 \o PhiOperandsFor(frontier, j + 1, phis, defs, cin, idom)

\* for frontier in self.dom.dominator_frontiers[block]; w is
\* [worklist, phis, next_version].
RECURSIVE FrontierLoop(_, _, _, _, _, _)
FrontierLoop(w, fr, j, defs, cin, idom) ==
    IF j > Len(fr)
    THEN w
    ELSE IF w.phis[fr[j]].present
         THEN FrontierLoop(w, fr, j + 1, defs, cin, idom)
         ELSE FrontierLoop(
                  [worklist |-> Append(w.worklist, fr[j]),
                   phis |-> [w.phis EXCEPT ![fr[j]] =
                               [present |-> TRUE,
                                version |-> w.next_version,
                                operands |-> PhiOperandsFor(fr[j], 1, w.phis, defs,
                                                            cin, idom)]],
                   next_version |-> w.next_version + 1],
                  fr, j + 1, defs, cin, idom)

\* while worklist: block = worklist.pop(); ...   `order` is the order in
\* which the frontier sets are iterated.
RECURSIVE insert_phi_nodes(_, _, _, _, _)
insert_phi_nodes(w, order, defs, cin, idom) ==
    IF w.worklist = <<>>
    THEN w
    ELSE LET n == Len(w.worklist)
             block == w.worklist[n]
             fr == SelectSeq(order, LAMBDA y : y \in dominator_frontier(cin, block))
         IN  insert_phi_nodes(
                 FrontierLoop([w EXCEPT !.worklist = SubSeq(w.worklist, 1, n - 1)],
                              fr, 1, defs, cin, idom),
                 order, defs, cin, idom)

\* The orders in which a frontier set may be iterated.
FrontierOrders == {<<1, 2, 3, 4>>, <<4, 3, 2, 1>>}

\* all(op[1] == phi for op in phi.operands): op[1] is the predecessor block
\* of the operand, compared with the phi object.
AllOperandsArePhi(phi, block) ==
    \A j \in 1..Len(phi.operands) : BlockId(phi.operands[j][2]) = PhiId(block)

SsaInit ==
    /\ \E shape \in SsaShapes, bodies \in [1..4 -> SsaBodies] :
          /\ Len(bodies[1]) + Len(bodies[2]) + Len(bodies[3]) + Len(bodies[4]) <= MaxMemOps
          /\ ssa_fn = [b \in 1..4 |->
                         [label |-> b,
                          instructions |-> BodyInsts(bodies[b]) \o <<shape[b]>>]]
    /\ ssa_cfg_in = [b \in 1..4 |-> <<>>]
    /\ next_version = 0
    /\ memory_defs = [b \in 1..4 |-> <<>>]
    /\ def_keys = <<>>
    /\ memory_uses = [b \in 1..4 |-> <<>>]
    /\ memory_phis = [b \in 1..4 |-> NoPhi]
    /\ spc = "start"

SsaIdle ==
    /\ ssa_fn = <<>>
    /\ ssa_cfg_in = <<>>
    /\ next_version = 0
    /\ memory_defs = <<>>
    /\ def_keys = <<>>
    /\ memory_uses = <<>>
    /\ memory_phis = <<>>
    /\ spc = "idle"

\* run_pass, the analyses it requests: CFGAnalysis fills cfg_in.
RequestAnalyses ==
    /\ spc = "start"
    /\ AllTerminated(ssa_fn)
    /\ ssa_cfg_in' = ScanBlocks(EmptySets(ssa_fn), ssa_fn, 1)
    /\ spc' = "defs"
    /\ UNCHANGED <<ssa_fn, next_version, memory_defs, def_keys, memory_uses,
                   memory_phis, notSsa>>

\* _build_memory_ssa, first pass
ProcessBlockDefinitions ==
    /\ spc = "defs"
    /\ LET m == ProcessWalk([next_version |-> next_version, defs |-> memory_defs,
                             keys |-> def_keys, uses |-> memory_uses],
                            ssa_fn, dfs_walk(immediate_dominators(ssa_cfg_in)), 1)
       IN /\ next_version' = m.next_version
          /\ memory_defs' = m.defs
          /\ def_keys' = m.keys
          /\ memory_uses' = m.uses
    /\ spc' = "phis"
    /\ UNCHANGED <<ssa_fn, ssa_cfg_in, memory_phis, notSsa>>

\* _build_memory_ssa, second pass: _insert_phi_nodes
InsertPhiNodes ==
    /\ spc = "phis"
    /\ \E order \in FrontierOrders :
          LET w == insert_phi_nodes([worklist |-> def_keys, phis |-> memory_phis,
                                    next_version |-> next_version],
                                   order, memory_defs, ssa_cfg_in,
                                   immediate_dominators(ssa_cfg_in))
          IN /\ memory_phis' = w.phis
             /\ next_version' = w.next_version
    /\ spc' = "uses"
    /\ UNCHANGED <<ssa_fn, ssa_cfg_in, memory_defs, def_keys, memory_uses, notSsa>>

\* _build_memory_ssa, third pass: _connect_uses_to_defs
ConnectUsesToDefs ==
    /\ spc = "uses"
    /\ memory_uses' =
          [block \in DOMAIN memory_uses |->
              [u \in 1..Len(memory_uses[block]) |->
                  [memory_uses[block][u] EXCEPT
                      !.reaching_def =
                          get_reaching_def(block, memory_phis, memory_defs, ssa_cfg_in,
                                           immediate_dominators(ssa_cfg_in))]]]
    /\ spc' = "cleanup"
    /\ UNCHANGED <<ssa_fn, ssa_cfg_in, next_version, memory_defs, def_keys,
                   memory_phis, notSsa>>

\* _remove_redundant_phis
RemoveRedundantPhis ==
    /\ spc = "cleanup"
    /\ memory_phis' =
          [block \in DOMAIN memory_phis |->
              IF memory_phis[block].present /\ AllOperandsArePhi(memory_phis[block], block)
              THEN NoPhi
              ELSE memory_phis[block]]
    /\ spc' = "done"
    /\ UNCHANGED <<ssa_fn, ssa_cfg_in, next_version, memory_defs, def_keys,
                   memory_uses, notSsa>>

SsaNext ==
    \/ RequestAnalyses
    \/ ProcessBlockDefinitions
    \/ InsertPhiNodes
    \/ ConnectUsesToDefs
    \/ RemoveRedundantPhis

(***************************************************************************)
(* Memory SSA query get_clobbering_memory_access over the memory           *)
(* instructions of a block.  The analysis module that defines the query    *)
(* is not among the sources; it follows section 4.7 of the specification   *)
(* and the cases of test_mem_ssa.py.  Offsets and sizes are scaled down:   *)
(* a word is WordSize bytes.                                               *)
(***************************************************************************)
MaxProgLen == 3

WordSize == 2

\* A memory instruction with its read and write effect locations.
MemInst(op, rd, wr) == [opcode |-> op, read |-> rd, write |-> wr]

\* mstore writes (offset, word); mload reads (offset, word); calldatacopy
\* with a non-literal size writes FULL; an external call reads its argument
\* region and writes its return buffer.
MemInsts ==
    {MemInst("mstore", EMPTY_MEMORY_ACCESS, MemoryLocation(o, WordSize)) : o \in 0..WordSize}
    \cup {MemInst("mload", MemoryLocation(o, WordSize), EMPTY_MEMORY_ACCESS) : o \in 0..WordSize}
    \cup {MemInst("calldatacopy", EMPTY_MEMORY_ACCESS, FULL_MEMORY_ACCESS)}
    \cup {MemInst("call", rd, wr) :
              rd \in {MemoryLocation(0, WordSize), MemoryLocation(WordSize, WordSize),
                      MemoryLocation(WordSize - 1, WordSize)},
              wr \in {MemoryLocation(0, WordSize), MemoryLocation(WordSize, WordSize),
                      MemoryLocation(0, 2 * WordSize)}}

\* inst_to_def / inst_to_use: an instruction has a MemoryDef when it has a
\* write effect and a MemoryUse when it has a read effect.
HasMemoryDef(inst) == inst.write # EMPTY_MEMORY_ACCESS

HasMemoryUse(inst) == inst.read # EMPTY_MEMORY_ACCESS

\* Mutant: a read of the location between the two defs is not looked at.
RECURSIVE ScanForClobberNoReads(_, _, _)
ScanForClobberNoReads(prog, def_loc, k) ==
    IF k > Len(prog)
    THEN 0
    ELSE IF /\ HasMemoryDef(prog[k])
            /\ may_alias(prog[k].write, def_loc)
            /\ completely_overlaps(prog[k].write, def_loc)
         THEN k
         ELSE ScanForClobberNoReads(prog, def_loc, k + 1)

\* The instructions after the def, in program order: the first def whose
\* location may-alias and completely overlaps def_loc clobbers it, unless
\* a use up to and including that instruction may-alias def_loc.  0 is None.
RECURSIVE ScanForClobber(_, _, _)
ScanForClobber(prog, def_loc, k) ==
    IF k > Len(prog)
    THEN 0
    ELSE IF HasMemoryUse(prog[k]) /\ may_alias(def_loc, prog[k].read)
         THEN 0
         ELSE IF /\ HasMemoryDef(prog[k])
                 /\ may_alias(prog[k].write, def_loc)
                 /\ completely_overlaps(prog[k].write, def_loc)
              THEN k
              ELSE ScanForClobber(prog, def_loc, k + 1)

get_clobbering_memory_access(prog, d) == ScanForClobber(prog, prog[d].write, d + 1)

ClobInit ==
    /\ \E n \in 1..MaxProgLen : clob_prog \in [1..n -> MemInsts]
    /\ clob_ans = [asked |-> FALSE, def |-> 0, result |-> 0]

ClobIdle ==
    /\ clob_prog = <<>>
    /\ clob_ans = [asked |-> FALSE, def |-> 0, result |-> 0]

\* mem_ssa.get_clobbering_memory_access(def of instruction d)
GetClobberingMemoryAccess(d) ==
    /\ d \in 1..Len(clob_prog)
    /\ HasMemoryDef(clob_prog[d])
    /\ clob_ans' = [asked |-> TRUE, def |-> d,
                    result |-> get_clobbering_memory_access(clob_prog, d)]
    /\ UNCHANGED <<clob_prog, notClob>>

ClobNext == \E d \in 1..MaxProgLen : GetClobberingMemoryAccess(d)

(***************************************************************************)
(* Memory SSA with reaching definitions on defs, a live-on-entry access    *)
(* and the query get_clobbered_memory_access.  The analysis module is not  *)
(* among the sources; the construction follows section 4.7 of the          *)
(* specification.  An access is named <<kind, block, position>>.           *)
(***************************************************************************)
MaxWalkOps == 3

live_on_entry == <<"loe", 0, 0>>

MemoryDefAt(b, k) == <<"def", b, k>>

MemoryPhiAt(b) == <<"phi", b, 0>>

\* The memory instructions of the analysed functions: a store to offset 0,
\* a store to the next word, a load of offset 0.
WalkInsts ==
    { [opcode |-> "mstore", labels |-> <<>>, read |-> EMPTY_MEMORY_ACCESS,
       write |-> MemoryLocation(0, WordSize)],
      [opcode |-> "mstore", labels |-> <<>>, read |-> EMPTY_MEMORY_ACCESS,
       write |-> MemoryLocation(WordSize, WordSize)],
      [opcode |-> "mload", labels |-> <<>>, read |-> MemoryLocation(0, WordSize),
       write |-> EMPTY_MEMORY_ACCESS] }

WalkBodies ==
    {<<>>} \cup {<<i>> : i \in WalkInsts} \cup {<<i, j>> : i \in WalkInsts, j \in WalkInsts}

IsDefInst(inst) == inst.opcode = "mstore"

IsUseInst(inst) == inst.opcode = "mload"

\* The blocks that contain a def.
DefBlocks(f) ==
    {b \in 1..Len(f) : \E k \in 1..Len(f[b].instructions) : IsDefInst(f[b].instructions[k])}

\* The iterated dominance frontier of the def blocks: where phis go.
RECURSIVE IteratedFrontier(_, _, _)
IteratedFrontier(cin, defs, phis) ==
    LET more == UNION {dominator_frontier(cin, x) : x \in defs \cup phis}
    IN  IF more \subseteq phis THEN phis ELSE IteratedFrontier(cin, defs, phis \cup more)

\* The last def of a block, 0 if it has none.
LastDefPos(f, b) ==
    LET ds == {k \in 1..Len(f[b].instructions) : IsDefInst(f[b].instructions[k])}
    IN  IF ds = {} THEN 0 ELSE CHOOSE k \in ds : \A j \in ds : j <= k

\* The memory state at the exit of a block.
RECURSIVE ExitAccess(_, _, _, _)
ExitAccess(f, idom, phis, b) ==
    IF LastDefPos(f, b) # 0
    THEN MemoryDefAt(b, LastDefPos(f, b))
    ELSE IF b \in phis
         THEN MemoryPhiAt(b)
         ELSE IF idom[b] # 0
              THEN ExitAccess(f, idom, phis, idom[b])
              ELSE live_on_entry

\* The memory state at the entry of a block.
EntryAccess(f, idom, phis, b) ==
    IF b \in phis
    THEN MemoryPhiAt(b)
    ELSE IF idom[b] # 0
         THEN ExitAccess(f, idom, phis, idom[b])
         ELSE live_on_entry

\* reaching_def of the def or use at position k of block b: the closest
\* def before it in the block, else the state at the entry of the block.
ReachingAccess(f, idom, phis, b, k) ==
    LET ds == {j \in 1..(k - 1) : IsDefInst(f[b].instructions[j])}
    IN  IF ds # {}
        THEN MemoryDefAt(b, CHOOSE j \in ds : \A i \in ds : i <= j)
        ELSE EntryAccess(f, idom, phis, b)

\* MemSSA.analyze: reaching_def of every def and use, operands of every phi.
BuildMemorySSA(f) ==
    LET cin == ScanBlocks(EmptySets(f), f, 1)
        idom == immediate_dominators(cin)
        phis == IteratedFrontier(cin, DefBlocks(f), {})
        accesses == {<<b, k>> \in (1..Len(f)) \X (1..MaxWalkOps) :
                        /\ k <= Len(f[b].instructions)
                        /\ (IsDefInst(f[b].instructions[k]) \/ IsUseInst(f[b].instructions[k]))}
    IN  [built |-> TRUE,
         reaching_def |-> [a \in accesses |-> ReachingAccess(f, idom, phis, a[1], a[2])],
         operands |-> [b \in phis |->
                          [j \in 1..Len(cin[b]) |-> ExitAccess(f, idom, phis, cin[b][j])]]]

\* Mutant: every def met on the walk is taken for a clobber.
DefMayAliasAny(f, query_loc, access) == TRUE

\* self.alias.may_alias(query_loc, current.loc) for a def
DefMayAlias(f, query_loc, access) ==
    may_alias(query_loc, f[access[2]].instructions[access[3]].write)

\* _walk_for_clobbered_access: follow reaching_def from `current`; a def
\* whose location may-alias query_loc is the answer; a phi is searched
\* operand by operand; an access seen before ends the walk.  The result is
\* [found, visited]; found is live_on_entry when nothing was found.
RECURSIVE walk_for_clobbered_access(_, _, _, _, _)
RECURSIVE WalkPhiOperands(_, _, _, _, _, _)
walk_for_clobbered_access(f, ssa, current, query_loc, visited) ==
    IF current = live_on_entry \/ current \in visited
    THEN [found |-> live_on_entry, visited |-> visited]
    ELSE IF current[1] = "def"
         THEN IF DefMayAlias(f, query_loc, current)
              THEN [found |-> current, visited |-> visited \cup {current}]
              ELSE walk_for_clobbered_access(f, ssa, ssa.reaching_def[<<current[2], current[3]>>],
                                             query_loc, visited \cup {current})
         ELSE WalkPhiOperands(f, ssa, ssa.operands[current[2]], 1, query_loc,
                              visited \cup {current})

WalkPhiOperands(f, ssa, operands, j, query_loc, visited) ==
    IF j > Len(operands)
    THEN [found |-> live_on_entry, visited |-> visited]
    ELSE LET r == walk_for_clobbered_access(f, ssa, operands[j], query_loc, visited)
         IN  IF r.found # live_on_entry
             THEN r
             ELSE WalkPhiOperands(f, ssa, operands, j + 1, query_loc, r.visited)

get_clobbered_memory_access(f, ssa, b, k) ==
    walk_for_clobbered_access(f, ssa, ssa.reaching_def[<<b, k>>],
                              f[b].instructions[k].read, {}).found

WalkInit ==
    /\ \E shape \in SsaShapes, bodies \in [1..4 -> WalkBodies] :
          /\ Len(bodies[1]) + Len(bodies[2]) + Len(bodies[3]) + Len(bodies[4]) <= MaxWalkOps
          /\ walk_fn = [b \in 1..4 |->
                          [label |-> b, instructions |-> bodies[b] \o <<shape[b]>>]]
    /\ walk_ssa = [built |-> FALSE]
    /\ walk_ans = [asked |-> FALSE]

WalkIdle ==
    /\ walk_fn = <<>>
    /\ walk_ssa = [built |-> FALSE]
    /\ walk_ans = [asked |-> FALSE]

\* mem_ssa.analyze()
AnalyzeMemSSA ==
    /\ walk_fn # <<>>
    /\ ~walk_ssa.built
    /\ walk_ssa' = BuildMemorySSA(walk_fn)
    /\ UNCHANGED <<walk_fn, walk_ans, notWalk>>

\* mem_ssa.get_clobbered_memory_access(use at position k of block b)
GetClobberedMemoryAccess(b, k) ==
    /\ walk_ssa.built
    /\ k <= Len(walk_fn[b].instructions)
    /\ IsUseInst(walk_fn[b].instructions[k])
    /\ walk_ans' = [asked |-> TRUE, use |-> <<b, k>>,
                    result |-> get_clobbered_memory_access(walk_fn, walk_ssa, b, k)]
    /\ UNCHANGED <<walk_fn, walk_ssa, notWalk>>

WalkNext ==
    \/ AnalyzeMemSSA
    \/ \E b \in 1..4, k \in 1..MaxWalkOps : GetClobberedMemoryAccess(b, k)

(***************************************************************************)
(* Redundant load elimination (passes/redundant_load_elimination.py) on    *)
(* a function whose blocks form a chain, so that there is no memory phi.   *)
(* The loads and stores have literal offsets.                              *)
(***************************************************************************)
MaxRleLen == 4

NumRleBlocks == 3

\* mstore offset, value  /  %output = mload offset
RleStore(offset, value) ==
    [opcode |-> "mstore", offset |-> offset, operands |-> <<value>>, output |-> 0]

RleLoad(offset) ==
    [opcode |-> "mload", offset |-> offset, operands |-> <<>>, output |-> 0]

RleInsts ==
    {RleStore(o, 42) : o \in 0..WordSize} \cup {RleLoad(o) : o \in 0..WordSize}

\* mem_ssa.get_memory_def(inst) / get_memory_use(inst) are not None
RleIsDef(inst) == inst.opcode = "mstore"

RleIsUse(inst) == inst.opcode = "mload"

\* MemoryDef.loc / MemoryUse.loc: a word at the literal offset
RleLoc(inst) == MemoryLocation(inst.offset, WordSize)

\* MemoryUse.reaching_def of the use at position k: the closest def before
\* it; 0 is live-on-entry.
RleReachingDef(insts, k) ==
    LET ds == {j \in 1..(k - 1) : RleIsDef(insts[j])}
    IN  IF ds = {} THEN 0 ELSE CHOOSE j \in ds : \A i \in ds : i <= j

\* the loads a def leaves available
KillAliased(insts, available, d) ==
    SelectSeq(available, LAMBDA e : ~may_alias(RleLoc(insts[e.use]), RleLoc(insts[d])))

\* available_loads[mem_use] = inst.output
SetAvailable(available, k, var) ==
    IF \E j \in 1..Len(available) : available[j].use = k
    THEN [j \in 1..Len(available) |->
             IF available[j].use = k THEN [use |-> k, var |-> var] ELSE available[j]]
    ELSE Append(available, [use |-> k, var |-> var])

\* self.available_loads_per_block[bb].update(loads): the keys the dict has
\* keep their place, the new ones are added at the end.
RECURSIVE DictUpdate(_, _)
DictUpdate(d, loads) ==
    IF loads = <<>>
    THEN d
    ELSE DictUpdate(SetAvailable(d, Head(loads).use, Head(loads).var), Tail(loads))

\* _is_load_available(use at position k, last_memory_write).  In a chain of
\* blocks the reaching defs from the use back to last_memory_write (lines
\* 169-175) are the defs between the two, as are the instructions of lines
\* 163-166 when both are in one block.
is_load_available(insts, k, last_memory_write) ==
    IF last_memory_write = 0
    THEN FALSE
    ELSE \A j \in (last_memory_write + 1)..(k - 1) :
             ~(RleIsDef(insts[j])
                 /\ may_alias(RleLoc(insts[last_memory_write]), RleLoc(insts[j])))

\* _compute_available_loads, the loop over the instructions of block b
RECURSIVE BlockLoads(_, _, _, _)
BlockLoads(insts, b, available, k) ==
    IF k > Len(insts)
    THEN available
    ELSE IF insts[k].bb # b
    THEN BlockLoads(insts, b, available, k + 1)
    ELSE LET inst == insts[k]
             after_def == IF RleIsDef(inst) THEN KillAliased(insts, available, k)
                                            ELSE available
             known == \E j \in 1..Len(after_def) :
                          RleLoc(insts[after_def[j].use]) = RleLoc(inst)
         IN  BlockLoads(
                 insts, b,
                 IF RleIsUse(inst) /\ ~known
                 THEN Append(after_def, [use |-> k, var |-> inst.output])
                 ELSE after_def,
                 k + 1)

\* _compute_available_loads, the loop over the blocks in reverse post order:
\* the blocks of the chain in their order; a block dominates the later ones.
RECURSIVE compute_available_loads(_, _, _)
compute_available_loads(insts, per_block, b) ==
    IF b > Len(per_block)
    THEN per_block
    ELSE LET available == BlockLoads(insts, b, <<>>, 1)
             dom_loads ==
                 SelectSeq(available,
                           LAMBDA e : is_load_available(insts, e.use,
                                                        RleReachingDef(insts, e.use)))
         IN  compute_available_loads(
                 insts,
                 [d \in 1..Len(per_block) |->
                     IF d = b THEN DictUpdate(per_block[d], available)
                     ELSE IF d > b THEN DictUpdate(per_block[d], dom_loads)
                     ELSE per_block[d]],
                 b + 1)

\* the test of lines 120-130 for one available load
CanReplace(insts, e, k) ==
    /\ ~(insts[e.use].bb = insts[k].bb /\ e.use > k)
    /\ e.use # k
    /\ completely_overlaps(RleLoc(insts[e.use]), RleLoc(insts[k]))
    /\ is_load_available(insts, k, RleReachingDef(insts, e.use))

\* _process_block(b), the loop over the instructions; st is
\* [available, replacements].
RECURSIVE process_block(_, _, _, _)
process_block(insts, b, st, k) ==
    IF k > Len(insts)
    THEN st
    ELSE IF insts[k].bb # b
    THEN process_block(insts, b, st, k + 1)
    ELSE LET inst == insts[k]
             available == IF RleIsDef(inst) THEN KillAliased(insts, st.available, k)
                                            ELSE st.available
             hits == {j \in 1..Len(available) : CanReplace(insts, available[j], k)}
         IN  IF ~RleIsUse(inst)
             THEN process_block(insts, b, [st EXCEPT !.available = available], k + 1)
             ELSE IF hits # {}
                  THEN process_block(
                           insts, b,
                           [available |-> available,
                            replacements |->
                                [st.replacements EXCEPT
                                    ![k] = available[CHOOSE j \in hits :
                                                         \A i \in hits : j <= i].var]],
                           k + 1)
                  ELSE process_block(
                           insts, b,
                           [st EXCEPT !.available = SetAvailable(available, k, inst.output)],
                           k + 1)

\* for bb in rev_post_order: self._process_block(bb); st is
\* [per_block, replacements].
RECURSIVE ProcessBlocks(_, _, _)
ProcessBlocks(insts, st, b) ==
    IF b > Len(st.per_block)
    THEN st
    ELSE LET r == process_block(insts, b,
                                [available |-> st.per_block[b],
                                 replacements |-> st.replacements], 1)
         IN  ProcessBlocks(insts,
                           [per_block |-> [st.per_block EXCEPT ![b] = r.available],
                            replacements |-> r.replacements],
                           b + 1)

\* self.updater.update(inst, "store", [new_var])
eliminate_redundant_loads(insts, repl) ==
    [k \in 1..Len(insts) |->
        IF repl[k] # 0
        THEN [insts[k] EXCEPT !.opcode = "store", !.operands = <<repl[k]>>]
        ELSE insts[k]]

\* The output variable of the load at position k is %k; literals are above
\* the variable numbers.  bb is the block of the instruction: the function
\* is a chain of blocks, each jumping to the next.
RleInit ==
    /\ \E n \in 1..MaxRleLen :
          \E body \in [1..n -> RleInsts], bbs \in [1..n -> 1..NumRleBlocks] :
              /\ bbs[1] = 1
              /\ \A k \in 2..n : bbs[k] \in {bbs[k - 1], bbs[k - 1] + 1}
              /\ rle_insts = [k \in 1..n |->
                                 [opcode |-> body[k].opcode,
                                  offset |-> body[k].offset,
                                  operands |-> body[k].operands,
                                  output |-> IF body[k].opcode = "mload" THEN k ELSE 0,
                                  bb |-> bbs[k]]]
    /\ rle_orig = rle_insts
    /\ available_loads_per_block = <<>>
    /\ replacements = [k \in 1..Len(rle_insts) |-> 0]
    /\ rpc = "start"

RleIdle ==
    /\ rle_insts = <<>>
    /\ rle_orig = <<>>
    /\ available_loads_per_block = <<>>
    /\ replacements = <<>>
    /\ rpc = "idle"

\* run_pass: self._compute_available_loads()
ComputeAvailableLoads ==
    /\ rpc = "start"
    /\ available_loads_per_block' =
           compute_available_loads(
               rle_insts, [b \in 1..rle_insts[Len(rle_insts)].bb |-> <<>>], 1)
    /\ rpc' = "process"
    /\ UNCHANGED <<rle_insts, rle_orig, replacements, notRle>>

\* run_pass: for bb in rev_post_order: self._process_block(bb)
ProcessBlock ==
    /\ rpc = "process"
    /\ LET st == ProcessBlocks(rle_insts,
                               [per_block |-> available_loads_per_block,
                                replacements |-> replacements], 1)
       IN /\ available_loads_per_block' = st.per_block
          /\ replacements' = st.replacements
    /\ rpc' = "eliminate"
    /\ UNCHANGED <<rle_insts, rle_orig, notRle>>

\* run_pass: self._eliminate_redundant_loads()
EliminateRedundantLoads ==
    /\ rpc = "eliminate"
    /\ rle_insts' = eliminate_redundant_loads(rle_insts, replacements)
    /\ rpc' = "done"
    /\ UNCHANGED <<rle_orig, available_loads_per_block, replacements, notRle>>

RleNext ==
    \/ ComputeAvailableLoads
    \/ ProcessBlock
    \/ EliminateRedundantLoads

(***************************************************************************)
(* Function inliner (passes/func_inliner.py) over the function call graph  *)
(* (analysis/fcg.py).                                                      *)
(*                                                                         *)
(* An operand is <<kind, prefixes, base>>: the kind is "label", "var" or   *)
(* "lit", prefixes are the inline prefixes put in front of the name, the   *)
(* latest first, and base is the name it was created with.  An instruction *)
(* is [id, opcode, operands, output, annotation]; id stands for the        *)
(* identity of the Python object.                                          *)
(***************************************************************************)
NumFuncs == 3
MaxInvokes == 2

Funcs == 1..NumFuncs

IRLabel(prefixes, base) == <<"label", prefixes, base>>

IRVariable(prefixes, base) == <<"var", prefixes, base>>

IRLiteral(value) == <<"lit", <<>>, <<value>>>>

NoOutput == <<"none", <<>>, <<>>>>

IsLabel(op) == op[1] = "label"

IsVariable(op) == op[1] = "var"

\* f"{prefix}{name}"
WithPrefix(prefix, op) == <<op[1], <<prefix>> \o op[2], op[3]>>

IRInstruction(id, opcode, operands, output, annotation) ==
    [id |-> id, opcode |-> opcode, operands |-> operands, output |-> output,
     annotation |-> annotation]

\* The name of function i, which is also the label of its entry block.
FuncName(i) == IRLabel(<<>>, <<i>>)

\* The signature of an internal function: its number of arguments and
\* whether it has a return type.  Two signatures are drawn: no argument and
\* no return value, one argument and a return value.
Signatures == {[nargs |-> 0, returns |-> FALSE], [nargs |-> 1, returns |-> TRUE]}

ParamInst(i, k, annotation) ==
    IRInstruction(<<i, k>>, "param", <<>>, IRVariable(<<>>, <<i, k>>), annotation)

\* One param per argument (annotated with the argument's name), one for the
\* return buffer when the function returns a value, one for the return
\* address.
handle_internal_func(i, sig) ==
    [k \in 1..sig.nargs |-> ParamInst(i, k, "arg")]
        \o (IF sig.returns THEN <<ParamInst(i, sig.nargs + 1, "return_buffer")>> ELSE <<>>)
        \o <<ParamInst(i, sig.nargs + (IF sig.returns THEN 2 ELSE 1), "return_pc")>>

\* invoke @callee, args..., return buffer
handle_self_call(id, callee, sig) ==
    IRInstruction(
        id, "invoke",
        <<FuncName(callee)>>
            \o [k \in 1..sig.nargs |-> IRVariable(<<>>, <<0, k>>)]
            \o (IF sig.returns THEN <<IRLiteral(0)>> ELSE <<>>),
        IF sig.returns THEN IRVariable(<<>>, id) ELSE NoOutput,
        "")

\* The one block of function i: its params, its calls, its terminator.  The
\* first function of the context is the entry of the program, which takes
\* no params and does not return.
FunctionBody(i, sigs, targets) ==
    LET params == IF i = 1 THEN <<>> ELSE handle_internal_func(i, sigs[i])
        np == Len(params)
        calls == [k \in 1..Len(targets) |->
                     handle_self_call(<<i, np + k>>, targets[k], sigs[targets[k]])]
        last == <<i, np + Len(targets) + 1>>
    IN  params \o calls
            \o <<IF i = 1
                 THEN IRInstruction(last, "stop", <<>>, NoOutput, "")
                 ELSE IRInstruction(last, "ret", <<params[np].output>>, NoOutput, "")>>

\* Vyper rejects recursive calls, so the call graph of a context is acyclic:
\* function i calls functions after i only.
TargetSeqs(i) == UNION {[1..n -> (i + 1)..NumFuncs] : n \in 0..MaxInvokes}

RECURSIVE TargetChoices(_)
TargetChoices(i) ==
    IF i > NumFuncs
    THEN {<<>>}
    ELSE {<<t>> \o rest : t \in TargetSeqs(i), rest \in TargetChoices(i + 1)}

RECURSIVE ConcatInsts(_, _)
ConcatInsts(blocks, k) ==
    IF k > Len(blocks)
    THEN <<>>
    ELSE blocks[k].instructions \o ConcatInsts(blocks, k + 1)

IsInvoke(inst) == inst.opcode = "invoke"

\* self.functions[name], for the name an invoke carries
get_function(name) == name[3][1]

\* The invoke instructions of function f, block by block.
InvokesOf(ctx, f) == SelectSeq(ConcatInsts(ctx[f], 1), IsInvoke)

RECURSIVE OrderedSetOf(_, _)
OrderedSetOf(seq, k) ==
    IF k > Len(seq)
    THEN <<>>
    ELSE LET rest == OrderedSetOf(seq, k + 1)
             IsOther(x) == x # seq[k]
         IN  <<seq[k]>> \o SelectSeq(rest, IsOther)

RECURSIVE CallsTo(_, _, _)
CallsTo(ctx, callee, f) ==
    IF f > NumFuncs
    THEN <<>>
    ELSE LET Targets(inst) == get_function(inst.operands[1]) = callee
             sites == SelectSeq(InvokesOf(ctx, f), Targets)
         IN  [k \in 1..Len(sites) |-> sites[k].id] \o CallsTo(ctx, callee, f + 1)

\* FCGAnalysis.analyze: calls[f] are the invoke instructions that target f,
\* callees[f] the functions f invokes, each in order of first appearance.
analyze(ctx) ==
    [calls |-> [f \in Funcs |-> CallsTo(ctx, f, 1)],
     callees |-> [f \in Funcs |->
                     LET invokes == InvokesOf(ctx, f)
                     IN  OrderedSetOf([k \in 1..Len(invokes) |->
                                          get_function(invokes[k].operands[1])], 1)]]

RECURSIVE dfs(_, _, _)
RECURSIVE DfsCallees(_, _, _, _)
dfs(callees, f, st) ==
    IF f \in st.visited
    THEN st
    ELSE LET entered == [st EXCEPT !.visited = @ \cup {f}]
             after == DfsCallees(callees, callees[f], 1, entered)
         IN  [after EXCEPT !.call_walk = Append(@, f)]

DfsCallees(callees, cs, k, st) ==
    IF k > Len(cs)
    THEN st
    ELSE DfsCallees(callees, cs, k + 1, dfs(callees, cs[k], st))

build_call_walk(callees, function) ==
    dfs(callees, function, [visited |-> {}, call_walk |-> <<>>]).call_walk

\* IRInstruction.copy
CopyInst(prefix, inst) ==
    [inst EXCEPT
        !.id = <<prefix>> \o @,
        !.operands = [k \in 1..Len(@) |->
                         IF IsVariable(@[k]) THEN WithPrefix(prefix, @[k]) ELSE @[k]],
        !.output = IF IsVariable(@) THEN WithPrefix(prefix, @) ELSE @]

\* IRBasicBlock.copy
CopyBlock(prefix, bb) ==
    [label |-> WithPrefix(prefix, bb.label),
     instructions |-> [k \in 1..Len(bb.instructions) |->
                          CopyInst(prefix, bb.instructions[k])]]

\* IRFunction.copy: every block, with the prefix on labels and variables.
CopyFunction(prefix, blocks) ==
    [j \in 1..Len(blocks) |-> CopyBlock(prefix, blocks[j])]

\* The rewriting without lines 114-117: the labels of the copied jumps keep
\* the names they had in the callee.
RewriteInstKeepLabels(prefix, inst, call_site, return_label) ==
    IF inst.opcode = "param"
    THEN IF inst.annotation = "return_buffer"
         THEN [inst EXCEPT !.opcode = "store",
                           !.operands = IF Len(call_site.operands) >= 2
                                        THEN SubSeq(call_site.operands, 2, 2)
                                        ELSE <<>>]
         ELSE IF inst.annotation = "return_pc"
              THEN [inst EXCEPT !.opcode = "nop"]
              ELSE inst
    ELSE IF inst.opcode = "ret"
         THEN [inst EXCEPT !.opcode = "jmp", !.operands = <<return_label>>]
         ELSE inst

\* The rewriting of one copied instruction.
RewriteInst(prefix, inst, call_site, return_label) ==
    IF inst.opcode = "param"
    THEN IF inst.annotation = "return_buffer"
         THEN [inst EXCEPT !.opcode = "store",
                           !.operands = IF Len(call_site.operands) >= 2
                                        THEN SubSeq(call_site.operands, 2, 2)
                                        ELSE <<>>]
         ELSE IF inst.annotation = "return_pc"
              THEN [inst EXCEPT !.opcode = "nop"]
              ELSE inst
    ELSE IF inst.opcode = "ret"
         THEN [inst EXCEPT !.opcode = "jmp", !.operands = <<return_label>>]
         ELSE IF inst.opcode \in {"jmp", "jnz", "djmp"}
              THEN [inst EXCEPT !.operands =
                       [k \in 1..Len(@) |->
                           IF IsLabel(@[k]) THEN WithPrefix(prefix, @[k]) ELSE @[k]]]
              ELSE inst

\* call_site.parent and its index there: <<function, block, index>> of the
\* instruction with this identity.
Positions(ctx) ==
    UNION {UNION {{<<f, b, k>> : k \in 1..Len(ctx[f][b].instructions)} :
                     b \in 1..Len(ctx[f])} : f \in Funcs}

SiteOf(ctx, id) ==
    CHOOSE loc \in Positions(ctx) : ctx[loc[1]][loc[2]].instructions[loc[3]].id = id

InContext(ctx, id) ==
    \E loc \in Positions(ctx) : ctx[loc[1]][loc[2]].instructions[loc[3]].id = id

\* The context after func is inlined at call_site, the inline_count-th
\* inlining of the pass.  The return block takes the instructions after the
\* call, the copied blocks follow it, and the call-site block ends in a jump
\* to the copy's entry.
inline_call_site(ctx, func, call_site, count, label_no) ==
    LET prefix == count
        loc == SiteOf(ctx, call_site)
        call_site_func == loc[1]
        call_site_bb == ctx[call_site_func][loc[2]]
        call_idx == loc[3]
        site == call_site_bb.instructions[call_idx]
        call_site_return ==
            [label |-> IRLabel(<<>>, <<label_no + 1, prefix>>),
             instructions |-> SubSeq(call_site_bb.instructions, call_idx + 1,
                                     Len(call_site_bb.instructions))]
        func_copy == CopyFunction(prefix, ctx[func])
        spliced ==
            [j \in 1..Len(func_copy) |->
                [label |-> func_copy[j].label,
                 instructions |->
                     [k \in 1..Len(func_copy[j].instructions) |->
                         RewriteInst(prefix, func_copy[j].instructions[k], site,
                                     call_site_return.label)]]]
        jmp == IRInstruction(<<0, prefix>>, "jmp", <<func_copy[1].label>>, NoOutput, "")
        truncated ==
            [label |-> call_site_bb.label,
             instructions |->
                 Append(SubSeq(call_site_bb.instructions, 1, call_idx - 1), jmp)]
    IN  [ctx EXCEPT ![call_site_func] =
            [@ EXCEPT ![loc[2]] = truncated] \o <<call_site_return>> \o spliced]

ShouldInlineAnyCalls(calls) == Len(calls) >= 1

\* if len(calls) == 1
ShouldInline(calls) == Len(calls) = 1

InlInit ==
    /\ \E sigs \in [Funcs \ {1} -> Signatures] :
          \E targets \in TargetChoices(1) :
              ctx_functions =
                  [i \in Funcs |->
                      <<[label |-> FuncName(i),
                         instructions |-> FunctionBody(i, sigs, targets[i])]>>]
    /\ ctx_before = ctx_functions
    /\ fcg = [calls |-> <<>>, callees |-> <<>>]
    /\ call_walk = <<>>
    /\ walk_pos = 0
    /\ inline_count = 0
    /\ last_label = 0
    /\ inlined = {}
    /\ ipc = "start"

InlIdle ==
    /\ ctx_functions = <<>>
    /\ ctx_before = <<>>
    /\ fcg = [calls |-> <<>>, callees |-> <<>>]
    /\ call_walk = <<>>
    /\ walk_pos = 0
    /\ inline_count = 0
    /\ last_label = 0
    /\ inlined = {}
    /\ ipc = "idle"

\* run_pass up to its loop: the pass runs on the first function of the
\* context.
RequestFCG ==
    /\ ipc = "start"
    /\ fcg' = analyze(ctx_functions)
    /\ call_walk' = build_call_walk(fcg'.callees, 1)
    /\ walk_pos' = 1
    /\ inline_count' = 0
    /\ ipc' = "loop"
    /\ UNCHANGED <<ctx_functions, ctx_before, last_label, inlined>>
    /\ UNCHANGED notInl

\* One round of the loop for a function with one call.
InlineFunction ==
    /\ ipc = "loop"
    /\ walk_pos <= Len(call_walk)
    /\ LET func == call_walk[walk_pos]
           calls == fcg.calls[func]
       IN  /\ ShouldInline(calls)
           /\ \A k \in 1..Len(calls) : InContext(ctx_functions, calls[k])
           /\ ctx_functions' =
                  inline_call_site(ctx_functions, func, calls[1], inline_count, last_label)
           /\ inlined' = inlined \cup {func}
    /\ inline_count' = inline_count + 1
    /\ last_label' = last_label + 1
    /\ walk_pos' = walk_pos + 1
    /\ UNCHANGED <<ctx_before, fcg, call_walk, ipc>>
    /\ UNCHANGED notInl

\* One round of the loop for a function with no call or several.
SkipFunction ==
    /\ ipc = "loop"
    /\ walk_pos <= Len(call_walk)
    /\ ~ShouldInline(fcg.calls[call_walk[walk_pos]])
    /\ walk_pos' = walk_pos + 1
    /\ UNCHANGED <<ctx_functions, ctx_before, fcg, call_walk, inline_count, last_label,
                   inlined, ipc>>
    /\ UNCHANGED notInl

\* The end of run_pass: the CFG analysis is invalidated.
FinishInlining ==
    /\ ipc = "loop"
    /\ walk_pos > Len(call_walk)
    /\ ipc' = "done"
    /\ UNCHANGED <<ctx_functions, ctx_before, fcg, call_walk, walk_pos, inline_count,
                   last_label, inlined>>
    /\ UNCHANGED notInl

InlNext ==
    \/ RequestFCG
    \/ InlineFunction
    \/ SkipFunction
    \/ FinishInlining

(***************************************************************************)
(* DFTPass (passes/dft.py).                                                *)
(*                                                                         *)
(* The function is one sequence of instructions [opcode, operands,         *)
(* output]; an instruction is named by its position; a block ends at each  *)
(* terminator.  An operand is the position of the instruction that         *)
(* produces the variable, or 0 for a literal or a label; output tells      *)
(* whether the instruction has an output variable.                         *)
(***************************************************************************)
MaxDftLen == 4

VOLATILE_INSTRUCTIONS ==
    {"param", "call", "staticcall", "delegatecall", "create", "create2", "invoke",
     "sload", "sstore", "iload", "istore", "tload", "tstore", "mstore", "mload",
     "calldatacopy", "mcopy", "extcodecopy", "returndatacopy", "codecopy",
     "dloadbytes", "dload", "return", "ret", "jmp", "jnz", "djmp", "log",
     "selfdestruct", "invalid", "revert", "assert", "assert_unreachable", "stop",
     "exit"}

DftInst(opcode, operands, output) ==
    [opcode |-> opcode, operands |-> operands, output |-> output]

\* The positions of f whose instruction has an output.
DftOutputs(f) == {j \in 1..Len(f) : f[j].output}

\* The instructions that may follow f: a phi at the head of a block, an add
\* of two earlier variables or literals, an mload of a literal pointer, an
\* mstore of an earlier variable or a literal, a jmp, or a jnz on an earlier
\* variable.
DftChoices(f) ==
    LET vars_ == DftOutputs(f)
        ops == {0} \cup vars_
        at_head == \A j \in 1..Len(f) :
                       f[j].opcode = "phi" \/
                           (f[j].opcode \in BB_TERMINATORS /\
                               \A i \in (j + 1)..Len(f) : f[i].opcode = "phi")
    IN  (IF at_head THEN {DftInst("phi", <<0, 0>>, TRUE)} ELSE {})
            \cup {DftInst("add", <<a, b>>, TRUE) : a \in ops, b \in ops}
            \cup {DftInst("mload", <<0>>, TRUE)}
            \cup {DftInst("mstore", <<a, 0>>, FALSE) : a \in ops}
            \cup {DftInst("jmp", <<0>>, FALSE)}
            \cup {DftInst("jnz", <<a, 0, 0>>, FALSE) : a \in vars_}

\* inst.parent: the block of instruction i.
DftParent(f, i) == 1 + Cardinality({j \in 1..(i - 1) : f[j].opcode \in BB_TERMINATORS})

DftNumBlocks(f) == Cardinality({j \in 1..Len(f) : f[j].opcode \in BB_TERMINATORS})

\* bb.instructions of block b before the pass.
DftBlock(f, b) ==
    LET InB(i) == DftParent(f, i) = b
    IN  SelectSeq([i \in 1..Len(f) |-> i], InB)

\* inst.get_inputs(): the variable operands.
DftInputs(inst) ==
    LET IsVar(op) == op # 0
    IN  SelectSeq(inst.operands, IsVar)

\* DFG.get_uses(op): the instructions that read the variable, in program
\* order, once per reading operand.
RECURSIVE DftUses(_, _, _)
DftUses(f, v, i) ==
    IF i > Len(f)
    THEN <<>>
    ELSE LET IsV(op) == op = v
             n == Len(SelectSeq(DftInputs(f[i]), IsV))
         IN  [k \in 1..n |-> i] \o DftUses(f, v, i + 1)

\* The fence ids _process_basic_block gives to the instructions of a block:
\* an instruction takes the current fence id, a volatile one then raises it.
RECURSIVE AssignFences(_, _, _, _)
AssignFences(f, insts, k, st) ==
    IF k > Len(insts)
    THEN st
    ELSE AssignFences(
             f, insts, k + 1,
             [fence |-> [st.fence EXCEPT ![insts[k]] = st.fence_id],
              fence_id |-> IF f[insts[k]].opcode \in VOLATILE_INSTRUCTIONS
                           THEN st.fence_id + 1
                           ELSE st.fence_id])

SameBlockAnyFence(f, fence, i, j) == DftParent(f, i) = DftParent(f, j)

\* uses_this.parent == inst.parent and uses_this.fence_id == inst.fence_id
SameBlockAndFence(f, fence, i, j) ==
    DftParent(f, i) = DftParent(f, j) /\ fence[i] = fence[j]

RECURSIVE process_instruction_r(_, _, _, _, _)
RECURSIVE ProcessEach(_, _, _, _, _, _)
process_instruction_r(f, fence, pin, i, st) ==
    LET inst == f[i]
        Near(j) == SameBlockAndFence(f, fence, i, j)
        uses == IF inst.output THEN SelectSeq(DftUses(f, i, 1), Near) ELSE <<>>
        after_uses == ProcessEach(f, fence, pin, uses, 1, st)
    IN  IF i \in after_uses.visited
        THEN after_uses
        ELSE LET entered == [after_uses EXCEPT !.visited = @ \cup {i}]
             IN  IF inst.opcode = "phi"
                 THEN [entered EXCEPT !.instructions = Append(@, i)]
                 ELSE LET targets == SelectSeq(DftInputs(inst), Near)
                          after_inputs == ProcessEach(f, fence, pin, targets, 1, entered)
                          after_pin ==
                              IF inst.opcode \in BB_TERMINATORS
                              THEN ProcessEach(f, fence, pin, pin, 1, after_inputs)
                              ELSE after_inputs
                      IN  [after_pin EXCEPT !.instructions = Append(@, i)]

\* The calls of a loop, one after the other: a call has returned, and its
\* instruction is visited, before the next call starts.
ProcessEach(f, fence, pin, targets, k, st) ==
    IF k > Len(targets)
    THEN st
    ELSE LET returned == process_instruction_r(f, fence, pin, targets[k], st)
         IN  IF targets[k] \in returned.visited
             THEN ProcessEach(f, fence, pin, targets, k + 1, returned)
             ELSE returned

\* The block's new instruction list and the visited set after it.
process_basic_block(f, fence, b, visited) ==
    LET instructions == DftBlock(f, b)
    IN  ProcessEach(f, fence, instructions, instructions, 1,
                    [visited |-> visited, instructions |-> <<>>])

DftInit ==
    /\ dft_fn = <<>>
    /\ dft_out = <<>>
    /\ dft_fence = <<>>
    /\ fence_id = 0
    /\ visited_instructions = {}
    /\ dpc = "build"

DftIdle ==
    /\ dft_fn = <<>>
    /\ dft_out = <<>>
    /\ dft_fence = <<>>
    /\ fence_id = 0
    /\ visited_instructions = {}
    /\ dpc = "idle"

\* The function is built: one more instruction is appended to it.  The
\* last instruction the bound leaves room for is a terminator.
AppendDftInstruction ==
    /\ dpc = "build"
    /\ Len(dft_fn) < MaxDftLen
    /\ \E inst \in DftChoices(dft_fn) :
          /\ Len(dft_fn) + 1 < MaxDftLen \/ inst.opcode \in BB_TERMINATORS
          /\ dft_fn' = Append(dft_fn, inst)
    /\ UNCHANGED <<dft_out, dft_fence, fence_id, visited_instructions, dpc>>
    /\ UNCHANGED notDft

\* _run_pass up to its loop, on a function whose last block is terminated.
RunDft ==
    /\ dpc = "build"
    /\ dft_fn # <<>>
    /\ dft_fn[Len(dft_fn)].opcode \in BB_TERMINATORS
    /\ fence_id' = 0
    /\ visited_instructions' = {}
    /\ dft_out' = <<>>
    /\ dft_fence' = [i \in 1..Len(dft_fn) |-> -1]
    /\ dpc' = "blocks"
    /\ UNCHANGED dft_fn
    /\ UNCHANGED notDft

\* One round of the loop of _run_pass: _process_basic_block for the next
\* block.
ProcessBasicBlock ==
    /\ dpc = "blocks"
    /\ Len(dft_out) < DftNumBlocks(dft_fn)
    /\ LET b == Len(dft_out) + 1
           fenced == AssignFences(dft_fn, DftBlock(dft_fn, b), 1,
                                  [fence |-> dft_fence, fence_id |-> fence_id])
           done == process_basic_block(dft_fn, fenced.fence, b, visited_instructions)
       IN  /\ dft_fence' = fenced.fence
           /\ fence_id' = fenced.fence_id
           /\ visited_instructions' = done.visited
           /\ dft_out' = Append(dft_out, done.instructions)
    /\ UNCHANGED <<dft_fn, dpc>>
    /\ UNCHANGED notDft

DftNext ==
    \/ AppendDftInstruction
    \/ RunDft
    \/ ProcessBasicBlock

(***************************************************************************)
(* Mem2Var (passes/mem2var.py).                                            *)
(*                                                                         *)
(* The function is one block: NumAllocas alloca instructions, then up to   *)
(* MaxUses instructions that each use one of the pointers, then a stop or  *)
(* a return of one of the pointers.  Instructions are the records of the   *)
(* inliner; the variable %k is IRVariable(<<>>, <<k>>).                    *)
(***************************************************************************)
NumAllocas == 2
MaxUses == 3

M2vVar(k) == IRVariable(<<>>, <<k>>)

\* f"addr{var.name}_{self.var_name_count}"
AddrVar(var, count) == IRVariable(<<>>, <<0>> \o var[3] \o <<count>>)

Allocas == {M2vVar(k) : k \in 1..NumAllocas}

\* The instructions that use a pointer: a load from it, a store of a literal
\* to it, and an add, which is neither an mload, an mstore nor a return.
M2vUses(id) ==
    UNION {{IRInstruction(id, "mload", <<ptr>>, M2vVar(id), ""),
            IRInstruction(id, "mstore", <<IRLiteral(7), ptr>>, NoOutput, ""),
            IRInstruction(id, "add", <<ptr, IRLiteral(1)>>, M2vVar(id), "")} :
               ptr \in Allocas}

M2vTerminators(id) ==
    {IRInstruction(id, "stop", <<>>, NoOutput, "")}
        \cup {IRInstruction(id, "return", <<IRLiteral(32), ptr>>, NoOutput, "") :
                 ptr \in Allocas}

\* dfg.outputs, restricted to the outputs of alloca instructions, in order.
AllocaVars(insts) ==
    LET IsAlloca(inst) == inst.opcode = "alloca"
        allocas == SelectSeq(insts, IsAlloca)
    IN  [k \in 1..Len(allocas) |-> allocas[k].output]

\* dfg.get_uses(var): the positions of the instructions that read var.
M2vGetUses(insts, var) ==
    {k \in 1..Len(insts) : \E n \in 1..Len(insts[k].operands) : insts[k].operands[n] = var}

AllUsesAre(insts, uses, opcodes) == \A k \in uses : insts[k].opcode \in opcodes

\* The three tests of _process_alloca_var: the variable is promoted when the
\* third is the first that holds.
PromotionTest(insts, uses) ==
    /\ ~AllUsesAre(insts, uses, {"mload"})
    /\ ~AllUsesAre(insts, uses, {"mstore"})
    /\ AllUsesAre(insts, uses, {"mstore", "mload", "return"})

\* The rewriting of the uses of a promoted variable, use after use.  A
\* return gets an mstore of the virtual register inserted before it, and
\* reads the output of that mstore.
RECURSIVE PromoteUses(_, _, _, _)
PromoteUses(insts, var, var_name, st) ==
    IF st.k > Len(insts)
    THEN st
    ELSE LET inst == insts[st.k]
             is_use == \E n \in 1..Len(inst.operands) : inst.operands[n] = var
         IN  IF ~is_use
             THEN PromoteUses(insts, var, var_name,
                              [st EXCEPT !.k = @ + 1, !.out = Append(@, inst)])
             ELSE IF inst.opcode = "mstore"
             THEN PromoteUses(insts, var, var_name,
                      [st EXCEPT !.k = @ + 1,
                                 !.out = Append(@, [inst EXCEPT
                                                       !.opcode = "store",
                                                       !.output = var_name,
                                                       !.operands = <<inst.operands[1]>>])])
             ELSE IF inst.opcode = "mload"
             THEN PromoteUses(insts, var, var_name,
                      [st EXCEPT !.k = @ + 1,
                                 !.out = Append(@, [inst EXCEPT
                                                       !.opcode = "store",
                                                       !.operands = <<var_name>>])])
             ELSE IF inst.opcode = "return"
             THEN LET new_var == M2vVar(st.last_variable + 1)
                      store == IRInstruction(st.last_variable + 1, "mstore",
                                             <<var_name, inst.operands[2]>>, new_var, "")
                  IN  PromoteUses(insts, var, var_name,
                          [k |-> st.k + 1,
                           last_variable |-> st.last_variable + 1,
                           out |-> st.out \o <<store, [inst EXCEPT !.operands[2] = new_var]>>])
             ELSE PromoteUses(insts, var, var_name,
                              [st EXCEPT !.k = @ + 1, !.out = Append(@, inst)])

\* _process_alloca_var: [insts, var_name_count, last_variable] after it.
process_alloca_var(insts, var, count, last) ==
    IF PromotionTest(insts, M2vGetUses(insts, var))
    THEN LET done == PromoteUses(insts, var, AddrVar(var, count),
                                 [k |-> 1, last_variable |-> last, out |-> <<>>])
         IN  [insts |-> done.out, var_name_count |-> count + 1,
              last_variable |-> done.last_variable]
    ELSE [insts |-> insts, var_name_count |-> count, last_variable |-> last]

MvInit ==
    /\ \E n \in 0..MaxUses :
          \E body \in [1..n -> M2vUses(0)] :
              \E last \in M2vTerminators(NumAllocas + n + 1) :
                  m2v_insts =
                      [k \in 1..NumAllocas |->
                          IRInstruction(k, "alloca", <<IRLiteral(k)>>, M2vVar(k), "")]
                      \o [k \in 1..n |->
                             [body[k] EXCEPT
                                 !.id = NumAllocas + k,
                                 !.output = IF @ = NoOutput
                                            THEN NoOutput
                                            ELSE M2vVar(NumAllocas + k)]]
                      \o <<last>>
    /\ m2v_before = m2v_insts
    /\ m2v_todo = <<>>
    /\ var_name_count = 0
    /\ last_variable = Len(m2v_insts)
    /\ mpc = "start"

MvIdle ==
    /\ m2v_insts = <<>>
    /\ m2v_before = <<>>
    /\ m2v_todo = <<>>
    /\ var_name_count = 0
    /\ last_variable = 0
    /\ mpc = "idle"

\* _run_pass up to its loop: the data-flow graph is built once.
RunMem2Var ==
    /\ mpc = "start"
    /\ m2v_todo' = AllocaVars(m2v_insts)
    /\ var_name_count' = 0
    /\ mpc' = "allocas"
    /\ UNCHANGED <<m2v_insts, m2v_before, last_variable>>
    /\ UNCHANGED notMv

\* One round of the loop of _run_pass.
ProcessAllocaVar ==
    /\ mpc = "allocas"
    /\ m2v_todo # <<>>
    /\ LET done == process_alloca_var(m2v_insts, Head(m2v_todo), var_name_count,
                                      last_variable)
       IN  /\ m2v_insts' = done.insts
           /\ var_name_count' = done.var_name_count
           /\ last_variable' = done.last_variable
    /\ m2v_todo' = Tail(m2v_todo)
    /\ UNCHANGED <<m2v_before, mpc>>
    /\ UNCHANGED notMv

MvNext ==
    \/ RunMem2Var
    \/ ProcessAllocaVar

(***************************************************************************)
(* Unused-variable removal (src/vyper/ir/bb_optimizer.py).                 *)
(***************************************************************************)

MaxOptLen == 4
MaxOptBlocks == 2

OptVar(k) == IRVariable(<<>>, <<k>>)

OptLabel(b) == IRLabel(<<>>, <<b>>)

RECURSIVE OptLen(_)
OptLen(blocks) == IF blocks = <<>> THEN 0 ELSE Len(blocks[1]) + OptLen(Tail(blocks))

OptOutputs(blocks) ==
    UNION {{blocks[b][k].output : k \in 1..Len(blocks[b])} : b \in 1..Len(blocks)}
        \ {NoOutput}

OptTerminators == {"jmp", "stop", "return"}

\* The last block has its terminator.
OptClosed(blocks) ==
    LET last == blocks[Len(blocks)]
    IN  last # <<>> /\ last[Len(last)].opcode \in OptTerminators

\* The block the next instruction lands in.
OptLanding(blocks) == IF OptClosed(blocks) THEN Len(blocks) + 1 ELSE Len(blocks)

\* The instructions that may follow the ones of blocks: operands are the
\* literal 0 or a variable defined before, and a jmp leads to the next block.
OptChoices(blocks) ==
    LET id == OptLen(blocks) + 1
        values == {IRLiteral(0)} \cup OptOutputs(blocks)
    IN  {IRInstruction(id, "add", <<a, IRLiteral(0)>>, OptVar(id), "") : a \in values}
            \cup {IRInstruction(id, "mload", <<IRLiteral(0)>>, OptVar(id), ""),
                  IRInstruction(id, "sload", <<IRLiteral(0)>>, OptVar(id), ""),
                  IRInstruction(id, "param", <<>>, OptVar(id), ""),
                  IRInstruction(id, "stop", <<>>, NoOutput, "")}
            \cup {IRInstruction(id, "mstore", <<a, IRLiteral(0)>>, NoOutput, "") :
                     a \in values}
            \cup {IRInstruction(id, "return", <<a, IRLiteral(0)>>, NoOutput, "") :
                     a \in values}
            \cup {IRInstruction(id, "jmp", <<OptLabel(OptLanding(blocks) + 1)>>,
                                 NoOutput, "")}

OptInputs(inst) ==
    {inst.operands[n] : n \in {m \in 1..Len(inst.operands) : IsVariable(inst.operands[m])}}

\* _calculate_in_set: the blocks named by the label operands of the jumps
\* of a block are its out_set.
OptOutSet(blocks, b) ==
    {s \in 1..Len(blocks) :
        \E k \in 1..Len(blocks[b]) :
            /\ blocks[b][k].opcode \in {"jmp", "jnz", "call", "invoke", "deploy"}
            /\ \E n \in 1..Len(blocks[b][k].operands) :
                  blocks[b][k].operands[n] = OptLabel(s)}

\* IRBasicBlock.calculate_liveness: the variables live before instruction k
\* of a block, from the variables live at its end.
RECURSIVE LivenessAt(_, _, _)
LivenessAt(insts, k, out_vars) ==
    IF k > Len(insts)
    THEN out_vars
    ELSE (LivenessAt(insts, k + 1, out_vars) \ {insts[k].output})
             \cup OptInputs(insts[k])

\* _calculate_liveness: out_vars of a block is the union of the variables
\* live at the head of each block of its out_set.
RECURSIVE OutVars(_, _)
OutVars(blocks, b) ==
    UNION {LivenessAt(blocks[s], 1, OutVars(blocks, s)) : s \in OptOutSet(blocks, b)}

\* bb.instructions[i + 1].liveness
LiveAfter(blocks, b, k) == LivenessAt(blocks[b], k + 1, OutVars(blocks, b))

\* The opcodes _optimize_unused_variables never removes.
KeptOpcodes == {"call", "invoke", "sload", "sstore"}

\* _optimize_unused_variables: the positions it puts on removeList.
removeList(blocks) ==
    {p \in UNION {{<<b, k>> : k \in 1..(Len(blocks[b]) - 1)} : b \in 1..Len(blocks)} :
        /\ blocks[p[1]][p[2]].opcode \notin KeptOpcodes
        /\ blocks[p[1]][p[2]].output # NoOutput
        /\ blocks[p[1]][p[2]].output \notin LiveAfter(blocks, p[1], p[2])}

RECURSIVE OptFilter(_, _, _, _)
OptFilter(insts, b, k, drop) ==
    IF k > Len(insts)
    THEN <<>>
    ELSE (IF <<b, k>> \in drop THEN <<>> ELSE <<insts[k]>>)
             \o OptFilter(insts, b, k + 1, drop)

optimize_unused_variables(blocks) ==
    [b \in 1..Len(blocks) |-> OptFilter(blocks[b], b, 1, removeList(blocks))]

OptInit ==
    /\ opt_blocks = <<<<>>>>
    /\ opt_before = <<>>
    /\ removed_log = {}
    /\ removed = 0
    /\ opc = "build"

OptIdle ==
    /\ opt_blocks = <<>>
    /\ opt_before = <<>>
    /\ removed_log = {}
    /\ removed = 0
    /\ opc = "idle"

\* The function under optimization gets one more instruction; after a jmp
\* the next block starts; the last instruction the bound allows ends the
\* function.
AppendOptInstruction ==
    /\ opc = "build"
    /\ OptLen(opt_blocks) < MaxOptLen
    /\ LET last == opt_blocks[Len(opt_blocks)]
           closed == OptClosed(opt_blocks)
       IN  /\ closed => last[Len(last)].opcode = "jmp"
           /\ \E inst \in OptChoices(opt_blocks) :
                 /\ inst.opcode = "jmp" => OptLanding(opt_blocks) < MaxOptBlocks
                 /\ inst.opcode = "jmp" => OptLen(opt_blocks) + 1 < MaxOptLen
                 /\ OptLen(opt_blocks) + 1 = MaxOptLen =>
                        inst.opcode \in OptTerminators
                 /\ opt_blocks' =
                        IF closed
                        THEN Append(opt_blocks, <<inst>>)
                        ELSE [opt_blocks EXCEPT ![Len(opt_blocks)] = Append(@, inst)]
    /\ UNCHANGED <<opt_before, removed_log, removed, opc>>
    /\ UNCHANGED notOpt

\* optimize_function is called on a function whose every block ends with a
\* terminator and, by construction, can be reached from the first.
RunOptimize ==
    /\ opc = "build"
    /\ LET last == opt_blocks[Len(opt_blocks)]
       IN  last # <<>> /\ last[Len(last)].opcode \in {"stop", "return"}
    /\ opt_before' = opt_blocks
    /\ opc' = "optimize"
    /\ UNCHANGED <<opt_blocks, removed_log, removed>>
    /\ UNCHANGED notOpt

\* One round of the loop of optimize_function.  No block is empty and
\* every block is reachable, so the two inner loops change nothing; the
\* liveness is computed and the unused variables are removed.
OptimizeRound ==
    /\ opc = "optimize"
    /\ LET drop == removeList(opt_blocks)
       IN  /\ opt_blocks' = optimize_unused_variables(opt_blocks)
           /\ removed_log' = removed_log \cup
                  {[inst |-> opt_blocks[p[1]][p[2]],
                    liveness |-> LiveAfter(opt_blocks, p[1], p[2])] : p \in drop}
           /\ removed' = Cardinality(drop)
           /\ opc' = IF Cardinality(drop) = 0 THEN "done" ELSE "optimize"
    /\ UNCHANGED opt_before
    /\ UNCHANGED notOpt

OptNext == AppendOptInstruction \/ RunOptimize \/ OptimizeRound

(***************************************************************************)
(* Assembly generation (src/vyper/codegen/dfg.py).  The stack model        *)
(* (vyper.compiler.utils.StackMap) is not among the sources: the assembly  *)
(* holds every pushed operand, DUP, opcode, label and jump, and leaves out *)
(* the SWAPs that arrange the operands of an instruction.                  *)
(***************************************************************************)

MaxEvmLen == 5
MaxEvmBlocks == 3

ONE_TO_ONE_INSTRUCTIONS ==
    {"revert", "calldatasize", "calldatacopy", "calldataload", "gas",
     "returndatasize", "returndatacopy", "callvalue", "selfbalance", "sload",
     "sstore", "timestamp", "caller", "selfdestruct", "stop", "shr", "shl",
     "and", "xor", "or", "add", "sub", "mul", "div", "mod", "eq", "iszero",
     "lg", "lt", "slt", "sgt", "log0", "log1", "log2", "log3", "log4"}

\* The opcodes after which _generate_evm_for_basicblock_r raises fen.
EvmFenceOpcodes == {"param", "call", "invoke", "sload", "sstore", "assert"}

EvmTerminators == {"jmp", "jnz", "stop"}

\* opcode.upper(), for the opcodes of the model.
Upper(opcode) ==
    CASE opcode = "add" -> "ADD"
      [] opcode = "sload" -> "SLOAD"
      [] opcode = "stop" -> "STOP"
      [] OTHER -> opcode

\* The label of the postamble, _sym___revert.
RevertLabel == IRLabel(<<>>, <<0>>)

\* One item of the assembly; inst names the instruction that emitted it.
Asm(text, inst) == [text |-> text, inst |-> inst]

EvmClosed(blocks) ==
    LET last == blocks[Len(blocks)]
    IN  last # <<>> /\ last[Len(last)].opcode \in EvmTerminators

EvmLocals(blocks) ==
    IF EvmClosed(blocks)
    THEN {}
    ELSE LET last == blocks[Len(blocks)]
         IN  {last[k].output : k \in 1..Len(last)} \ {NoOutput}

\* The instructions that may follow the ones of blocks.  The function is
\* either one block of arithmetic that ends with a stop, or a graph of
\* blocks that hold only their terminator; a jnz has the next block as one
\* of its targets, in either place.  No variable is live between blocks.
EvmChoices(blocks) ==
    LET id == OptLen(blocks) + 1
        values == {IRLiteral(0)} \cup EvmLocals(blocks)
        next == OptLabel((IF EvmClosed(blocks) THEN Len(blocks) + 1 ELSE Len(blocks)) + 1)
        others == {OptLabel(b) : b \in 1..MaxEvmBlocks} \ {next}
        arithmetic ==
            {IRInstruction(id, "add", <<a, IRLiteral(0)>>, OptVar(id), "") : a \in values}
                \cup {IRInstruction(id, "sload", <<IRLiteral(0)>>, OptVar(id), "")}
        jumps ==
            {IRInstruction(id, "jmp", <<next>>, NoOutput, "")}
                \cup {IRInstruction(id, "jnz", <<IRLiteral(1), next, l>>, NoOutput, "") :
                         l \in others}
                \cup {IRInstruction(id, "jnz", <<IRLiteral(1), l, next>>, NoOutput, "") :
                         l \in others}
    IN  {IRInstruction(id, "stop", <<>>, NoOutput, "")}
            \cup (IF Len(blocks) = 1 /\ ~EvmClosed(blocks) THEN arithmetic ELSE {})
            \cup (IF \A b \in 1..Len(blocks) : \A k \in 1..Len(blocks[b]) :
                      blocks[b][k].opcode \in EvmTerminators
                  THEN jumps
                  ELSE {})

\* Every label operand names a block of the function.
EvmLabelsExist(blocks) ==
    \A b \in 1..Len(blocks) : \A k \in 1..Len(blocks[b]) :
        \A n \in 1..Len(blocks[b][k].operands) :
            IsLabel(blocks[b][k].operands[n]) =>
                \E s \in 1..Len(blocks) : blocks[b][k].operands[n] = OptLabel(s)

\* dfg_inputs[v]: the instructions of a block that read v, once per operand.
RECURSIVE EvmUses(_, _, _)
EvmUses(insts, v, k) ==
    IF k > Len(insts)
    THEN <<>>
    ELSE LET IsV(op) == op = v
             n == Len(SelectSeq(insts[k].operands, IsV))
         IN  [j \in 1..n |-> k] \o EvmUses(insts, v, k + 1)

\* dfg_outputs[v]: the instruction of the block that defines v.
EvmProducer(insts, v) == CHOOSE k \in 1..Len(insts) : insts[k].output = v

\* convert_ir_to_dfg: use_count of a variable is the number of operands
\* that read it.
convert_ir_to_dfg(blocks) ==
    [v \in OptOutputs(blocks) |->
        LET Count(b) == Len(EvmUses(blocks[b], v, 1))
            RECURSIVE Sum(_)
            Sum(b) == IF b > Len(blocks) THEN 0 ELSE Count(b) + Sum(b + 1)
        IN  Sum(1)]

\* The fen of each instruction of a block.
RECURSIVE EvmFen(_, _, _)
EvmFen(insts, k, fen) ==
    IF k > Len(insts)
    THEN <<>>
    ELSE <<fen>> \o EvmFen(insts, k + 1,
                           IF insts[k].opcode \in EvmFenceOpcodes THEN fen + 1 ELSE fen)

RECURSIVE EvmReverse(_)
EvmReverse(seq) == IF seq = <<>> THEN <<>> ELSE Append(EvmReverse(Tail(seq)), Head(seq))

\* What the chain of opcode tests appends for an instruction.
EvmOpcodeAsm(inst) ==
    IF inst.opcode \in ONE_TO_ONE_INSTRUCTIONS
    THEN <<Asm(<<Upper(inst.opcode)>>, inst.id)>>
    ELSE IF inst.opcode = "jnz"
    THEN <<Asm(<<"_sym_", inst.operands[2]>>, inst.id), Asm(<<"JUMPI">>, inst.id)>>
    ELSE IF inst.opcode = "jmp"
    THEN IF IsLabel(inst.operands[1])
         THEN <<Asm(<<"_sym_", inst.operands[1]>>, inst.id), Asm(<<"JUMP">>, inst.id)>>
         ELSE <<Asm(<<"JUMP">>, inst.id)>>
    ELSE <<>>

NeedsCopyAlways(count) == TRUE

\* needs_copy, with a use-count correction of 0: the block has no select.
NeedsCopy(count) == count > 1

\* The loop that duplicates the operands with uses left.
RECURSIVE EmitDups(_, _, _, _)
EmitDups(inst, operands, n, st) ==
    IF n > Len(operands)
    THEN st
    ELSE LET op == operands[n]
         IN  IF IsVariable(op) /\ NeedsCopy(st.use_count[op])
             THEN EmitDups(inst, operands, n + 1,
                           [st EXCEPT !.assembly = Append(@, Asm(<<"DUP", op>>, inst.id)),
                                      !.use_count[op] = @ - 1])
             ELSE EmitDups(inst, operands, n + 1, st)

RECURSIVE generate_evm_for_instruction_r(_, _, _, _)
RECURSIVE GenerateEach(_, _, _, _, _)
RECURSIVE emit_input_operands(_, _, _, _, _, _)
generate_evm_for_instruction_r(insts, fen, k, st) ==
    LET inst == insts[k]
        SameFen(j) == fen[j] = fen[k]
        targets == IF inst.output = NoOutput
                   THEN <<>>
                   ELSE SelectSeq(EvmUses(insts, inst.output, 1), SameFen)
        after_uses == GenerateEach(insts, fen, targets, 1, st)
    IN  IF inst.id \in after_uses.visited
        THEN after_uses
        ELSE LET entered == [after_uses EXCEPT !.visited = @ \cup {inst.id}]
                 NotLabel(op) == ~IsLabel(op)
                 operands == EvmReverse(IF inst.opcode \in {"jmp", "jnz"}
                                        THEN SelectSeq(inst.operands, NotLabel)
                                        ELSE inst.operands)
                 after_inputs == emit_input_operands(insts, fen, inst, operands, 1, entered)
                 after_dups == EmitDups(inst, operands, 1, after_inputs)
             IN  [after_dups EXCEPT !.assembly = @ \o EvmOpcodeAsm(inst)]

\* The calls of the loop over the uses, one after the other.
GenerateEach(insts, fen, targets, n, st) ==
    IF n > Len(targets)
    THEN st
    ELSE LET returned == generate_evm_for_instruction_r(insts, fen, targets[n], st)
         IN  IF Len(returned.assembly) >= 0
             THEN GenerateEach(insts, fen, targets, n + 1, returned)
             ELSE returned

emit_input_operands(insts, fen, inst, ops, n, st) ==
    IF n > Len(ops)
    THEN st
    ELSE LET op == ops[n]
             returned ==
                 IF IsLabel(op)
                 THEN [st EXCEPT !.assembly = Append(@, Asm(<<"_sym_", op>>, inst.id))]
                 ELSE IF ~IsVariable(op)
                 THEN [st EXCEPT !.assembly = Append(@, Asm(<<"PUSH", op>>, inst.id))]
                 ELSE generate_evm_for_instruction_r(insts, fen, EvmProducer(insts, op), st)
         IN  IF Len(returned.assembly) >= 0
             THEN emit_input_operands(insts, fen, inst, ops, n + 1, returned)
             ELSE returned

\* The loop over the instructions of a block.
RECURSIVE GenerateBlock(_, _, _, _)
GenerateBlock(insts, fen, k, st) ==
    IF k > Len(insts)
    THEN st
    ELSE LET returned == generate_evm_for_instruction_r(insts, fen, k, st)
         IN  IF Len(returned.assembly) >= 0
             THEN GenerateBlock(insts, fen, k + 1, returned)
             ELSE returned

\* The orders in which a loop may meet the elements of a set.
EvmOrders(S) ==
    {seq \in [1..Cardinality(S) -> S] :
        \A i, j \in 1..Cardinality(S) : seq[i] = seq[j] => i = j}

EvmInit ==
    /\ evm_fn = <<<<>>>>
    /\ assembly = <<>>
    /\ use_count = <<>>
    /\ evm_visited = {}
    /\ visited_basicblocks = {}
    /\ evm_calls = <<>>
    /\ epc = "build"

EvmIdle ==
    /\ evm_fn = <<>>
    /\ assembly = <<>>
    /\ use_count = <<>>
    /\ evm_visited = {}
    /\ visited_basicblocks = {}
    /\ evm_calls = <<>>
    /\ epc = "idle"

\* The function gets one more instruction; a terminator ends its block, and
\* the last instruction the bound allows is a terminator.
AppendEvmInstruction ==
    /\ epc = "build"
    /\ OptLen(evm_fn) < MaxEvmLen
    /\ EvmClosed(evm_fn) => Len(evm_fn) < MaxEvmBlocks
    /\ \E inst \in EvmChoices(evm_fn) :
          /\ OptLen(evm_fn) + 1 = MaxEvmLen => inst.opcode \in EvmTerminators
          /\ evm_fn' =
                 IF EvmClosed(evm_fn)
                 THEN Append(evm_fn, <<inst>>)
                 ELSE [evm_fn EXCEPT ![Len(evm_fn)] = Append(@, inst)]
    /\ UNCHANGED <<assembly, use_count, evm_visited, visited_basicblocks, evm_calls, epc>>
    /\ UNCHANGED notEvm

\* generate_evm up to its call of _generate_evm_for_basicblock_r on the
\* first block.
GenerateEvm ==
    /\ epc = "build"
    /\ EvmClosed(evm_fn)
    /\ EvmLabelsExist(evm_fn)
    /\ assembly' = <<>>
    /\ evm_visited' = {}
    /\ visited_basicblocks' = {}
    /\ use_count' = convert_ir_to_dfg(evm_fn)
    /\ evm_calls' = <<<<1>>>>
    /\ epc' = "generate"
    /\ UNCHANGED evm_fn
    /\ UNCHANGED notEvm

\* One call of _generate_evm_for_basicblock_r on a block that is not
\* visited: its label, its instructions, and then the loop over its
\* out_set, which meets the successors in some order.
GenerateBasicBlock ==
    /\ epc = "generate"
    /\ evm_calls # <<>>
    /\ Head(evm_calls) # <<>>
    /\ LET basicblock == Head(Head(evm_calls))
           insts == evm_fn[basicblock]
           done == GenerateBlock(
                       insts, EvmFen(insts, 1, 0), 1,
                       [visited |-> evm_visited,
                        use_count |-> use_count,
                        assembly |-> assembly
                            \o <<Asm(<<"_sym_", OptLabel(basicblock)>>, 0),
                                 Asm(<<"JUMPDEST">>, 0)>>])
       IN  /\ basicblock \notin visited_basicblocks
           /\ visited_basicblocks' = visited_basicblocks \cup {basicblock}
           /\ assembly' = done.assembly
           /\ use_count' = done.use_count
           /\ evm_visited' = done.visited
           /\ \E order \in EvmOrders(OptOutSet(evm_fn, basicblock)) :
                 evm_calls' = <<order, Tail(Head(evm_calls))>> \o Tail(evm_calls)
    /\ UNCHANGED <<evm_fn, epc>>
    /\ UNCHANGED notEvm

\* A call on a visited block returns at once; a loop over an out_set that
\* has met every successor ends.
ReturnBasicBlock ==
    /\ epc = "generate"
    /\ evm_calls # <<>>
    /\ \/ /\ Head(evm_calls) = <<>>
          /\ evm_calls' = Tail(evm_calls)
       \/ /\ Head(evm_calls) # <<>>
          /\ Head(Head(evm_calls)) \in visited_basicblocks
          /\ evm_calls' = <<Tail(Head(evm_calls))>> \o Tail(evm_calls)
    /\ UNCHANGED <<evm_fn, assembly, use_count, evm_visited, visited_basicblocks, epc>>
    /\ UNCHANGED notEvm

\* generate_evm after the walk: the postamble.  The function has no data
\* segment, and the assembly is taken before optimize_assembly.
AppendPostamble ==
    /\ epc = "generate"
    /\ evm_calls = <<>>
    /\ assembly' = assembly \o <<Asm(<<"_sym_", RevertLabel>>, 0), Asm(<<"JUMPDEST">>, 0),
                                 Asm(<<"PUSH", IRLiteral(0)>>, 0), Asm(<<"DUP1">>, 0),
                                 Asm(<<"REVERT">>, 0)>>
    /\ epc' = "done"
    /\ UNCHANGED <<evm_fn, use_count, evm_visited, visited_basicblocks, evm_calls>>
    /\ UNCHANGED notEvm

EvmNext ==
    AppendEvmInstruction \/ GenerateEvm \/ GenerateBasicBlock \/ ReturnBasicBlock
        \/ AppendPostamble

(***************************************************************************)
(* SCCP (vyper/venom/passes/sccp.py), after section 4.9 of the             *)
(* specification.  Words are scaled down from 256 bits to 8.               *)
(***************************************************************************)

MaxParam == 1

SccpWord == 256

SccpLiterals == {32, 64, 224}

LatticeTop == <<"TOP">>

LatticeBottom == <<"BOTTOM">>

LatticeConst(c) == <<"const", c>>

IsConst(value) == value[1] = "const"

\* The instructions that may define the next variable from the variables
\* defined so far.
SccpChoices(id, defined) ==
    {IRInstruction(id, "param", <<>>, OptVar(id), "")}
        \cup {IRInstruction(id, "store", <<IRLiteral(c)>>, OptVar(id), "") :
                 c \in SccpLiterals}
        \cup {IRInstruction(id, "add", <<a, b>>, OptVar(id), "") :
                 a \in defined \cup {IRLiteral(32)}, b \in defined \cup {IRLiteral(64)}}

\* The functions of the model: two instructions and a jnz on a variable,
\* two branches of one instruction each, and a join block with a phi of
\* the variables of the branches.
SccpFunctions ==
    {<< <<i1, i2,
          IRInstruction(3, "jnz", <<c, OptLabel(2), OptLabel(3)>>, NoOutput, "")>>,
        <<i4, IRInstruction(5, "jmp", <<OptLabel(4)>>, NoOutput, "")>>,
        <<i6, IRInstruction(7, "jmp", <<OptLabel(4)>>, NoOutput, "")>>,
        <<IRInstruction(8, "phi", <<OptLabel(2), OptVar(4), OptLabel(3), OptVar(6)>>,
                        OptVar(8), ""),
          IRInstruction(9, "stop", <<>>, NoOutput, "")>> >> :
        i1 \in SccpChoices(1, {}),
        i2 \in SccpChoices(2, {OptVar(1)}),
        c \in {OptVar(1), OptVar(2)},
        i4 \in {IRInstruction(4, "store", <<IRLiteral(32)>>, OptVar(4), ""),
                IRInstruction(4, "add", <<OptVar(2), IRLiteral(64)>>, OptVar(4), "")},
        i6 \in {IRInstruction(6, "store", <<IRLiteral(32)>>, OptVar(6), ""),
                IRInstruction(6, "store", <<IRLiteral(64)>>, OptVar(6), ""),
                IRInstruction(6, "add", <<OptVar(1), IRLiteral(64)>>, OptVar(6), "")}}

\* The lattice value of an operand.
SccpOperand(op, lat) == IF IsVariable(op) THEN lat[op] ELSE LatticeConst(op[3][1])

MeetFirst(x, y) == IF x = LatticeTop THEN y ELSE x

\* The meet of two lattice values: TOP above the constants above BOTTOM.
Meet(x, y) ==
    IF x = LatticeTop THEN y
    ELSE IF y = LatticeTop THEN x
    ELSE IF x = y THEN x
    ELSE LatticeBottom

\* The evaluation table, over words with wrap-around.
SccpArith(opcode, a, b) == IF opcode = "add" THEN (a + b) % SccpWord ELSE a

\* A phi meets the operands that come over executable edges.
RECURSIVE VisitPhi(_, _, _, _, _)
VisitPhi(inst, b, n, lat, edges) ==
    IF n > Len(inst.operands)
    THEN LatticeTop
    ELSE LET rest == VisitPhi(inst, b, n + 2, lat, edges)
             from == CHOOSE s \in 1..4 : OptLabel(s) = inst.operands[n]
         IN  IF <<from, b>> \in edges
             THEN Meet(SccpOperand(inst.operands[n + 1], lat), rest)
             ELSE rest

\* The lattice value of the output of an instruction.
VisitExpr(inst, b, lat, edges) ==
    IF inst.opcode = "phi"
    THEN VisitPhi(inst, b, 1, lat, edges)
    ELSE IF inst.opcode = "store"
    THEN SccpOperand(inst.operands[1], lat)
    ELSE IF inst.opcode = "add"
    THEN LET x == SccpOperand(inst.operands[1], lat)
             y == SccpOperand(inst.operands[2], lat)
         IN  IF x = LatticeBottom \/ y = LatticeBottom
             THEN LatticeBottom
             ELSE IF IsConst(x) /\ IsConst(y)
             THEN LatticeConst(SccpArith("add", x[2], y[2]))
             ELSE LatticeTop
    ELSE LatticeBottom

SccpTarget(op) == CHOOSE s \in 1..4 : OptLabel(s) = op

\* The edges a terminator makes executable.
VisitTerminator(inst, b, lat) ==
    IF inst.opcode = "jmp"
    THEN {<<b, SccpTarget(inst.operands[1])>>}
    ELSE IF inst.opcode = "jnz"
    THEN LET c == SccpOperand(inst.operands[1], lat)
         IN  IF c = LatticeTop
             THEN {}
             ELSE IF IsConst(c)
             THEN IF c[2] # 0
                  THEN {<<b, SccpTarget(inst.operands[2])>>}
                  ELSE {<<b, SccpTarget(inst.operands[3])>>}
             ELSE {<<b, SccpTarget(inst.operands[2])>>, <<b, SccpTarget(inst.operands[3])>>}
    ELSE {}

\* One instruction is visited: its output takes its value, and a changed
\* variable and the new executable edges go to the worklists.
VisitInst(inst, b, st) ==
    IF inst.output = NoOutput
    THEN [st EXCEPT !.cfg = @ \cup (VisitTerminator(inst, b, st.lattice) \ st.executed)]
    ELSE LET value == VisitExpr(inst, b, st.lattice, st.executed)
         IN  IF value = st.lattice[inst.output]
             THEN st
             ELSE [st EXCEPT !.lattice[inst.output] = value,
                             !.ssa = @ \cup {inst.output}]

RECURSIVE VisitInsts(_, _, _, _)
VisitInsts(insts, b, k, st) ==
    IF k > Len(insts)
    THEN st
    ELSE LET visited == VisitInst(insts[k], b, st)
         IN  IF DOMAIN visited.lattice = DOMAIN st.lattice
             THEN VisitInsts(insts, b, k + 1, visited)
             ELSE visited

SccpReachable(edges, b) == \E e \in edges : e[2] = b

\* The instructions that read a variable, in the blocks reached so far.
RECURSIVE VisitUses(_, _, _, _)
VisitUses(fn1, v, b, st) ==
    IF b > Len(fn1)
    THEN st
    ELSE LET Reads(inst) == \E n \in 1..Len(inst.operands) : inst.operands[n] = v
             visited == IF SccpReachable(st.executed, b)
                        THEN VisitInsts(SelectSeq(fn1[b], Reads), b, 1, st)
                        ELSE st
         IN  IF DOMAIN visited.lattice = DOMAIN st.lattice
             THEN VisitUses(fn1, v, b + 1, visited)
             ELSE visited

\* A run of the function on the words its params receive: the words of
\* the variables it defines.  came is the block control comes from.
RECURSIVE SccpExecute(_, _, _, _, _, _)
SccpExecute(fn1, pvals, b, k, came, env) ==
    LET inst == fn1[b][k]
        Word(op) == IF IsVariable(op) THEN env[op] ELSE op[3][1]
    IN  IF inst.opcode = "stop"
        THEN env
        ELSE IF inst.opcode = "jmp"
        THEN SccpExecute(fn1, pvals, SccpTarget(inst.operands[1]), 1, b, env)
        ELSE IF inst.opcode = "jnz"
        THEN SccpExecute(fn1, pvals,
                         IF Word(inst.operands[1]) # 0
                         THEN SccpTarget(inst.operands[2])
                         ELSE SccpTarget(inst.operands[3]),
                         1, b, env)
        ELSE LET word ==
                     IF inst.opcode = "param" THEN pvals[inst.output]
                     ELSE IF inst.opcode = "store" THEN Word(inst.operands[1])
                     ELSE IF inst.opcode = "phi"
                     THEN Word(inst.operands[
                              1 + CHOOSE n \in 1..Len(inst.operands) :
                                      inst.operands[n] = OptLabel(came)])
                     ELSE SccpArith(inst.opcode, Word(inst.operands[1]),
                                    Word(inst.operands[2]))
             IN  SccpExecute(fn1, pvals, b, k + 1, came,
                             (inst.output :> word) @@ env)

SccpParams(fn1) ==
    UNION {{fn1[b][k].output : k \in {j \in 1..Len(fn1[b]) : fn1[b][j].opcode = "param"}} :
              b \in 1..Len(fn1)}

SccpInit ==
    /\ sccp_fn \in SccpFunctions
    /\ lattice = <<>>
    /\ executed = {}
    /\ cfg_worklist = {}
    /\ ssa_worklist = {}
    /\ kpc = "start"

SccpIdle ==
    /\ sccp_fn = <<>>
    /\ lattice = <<>>
    /\ executed = {}
    /\ cfg_worklist = {}
    /\ ssa_worklist = {}
    /\ kpc = "idle"

\* The pass starts: every variable is TOP, and the edge into the entry
\* block is the only work.
RunSccp ==
    /\ kpc = "start"
    /\ lattice' = [v \in OptOutputs(sccp_fn) |-> LatticeTop]
    /\ executed' = {}
    /\ cfg_worklist' = {<<0, 1>>}
    /\ ssa_worklist' = {}
    /\ kpc' = "run"
    /\ UNCHANGED sccp_fn
    /\ UNCHANGED notSccp

\* An edge of the CFG worklist is processed: it becomes executable, the
\* phis of its target are visited, and on the first visit of the target
\* its other instructions too.
ProcessCfgEdge ==
    /\ kpc = "run"
    /\ \E e \in cfg_worklist :
          LET b == e[2]
              first == ~SccpReachable(executed, b)
              insts == IF first THEN sccp_fn[b] ELSE SelectSeq(sccp_fn[b], IsPhi)
              st == VisitInsts(insts, b, 1,
                               [lattice |-> lattice, executed |-> executed \cup {e},
                                cfg |-> cfg_worklist \ {e}, ssa |-> ssa_worklist])
          IN  /\ lattice' = st.lattice
              /\ executed' = st.executed
              /\ cfg_worklist' = st.cfg
              /\ ssa_worklist' = st.ssa
    /\ UNCHANGED <<sccp_fn, kpc>>
    /\ UNCHANGED notSccp

\* A variable of the SSA worklist is processed: the instructions that
\* read it are visited.
ProcessSsaVariable ==
    /\ kpc = "run"
    /\ \E v \in ssa_worklist :
          LET st == VisitUses(sccp_fn, v, 1,
                              [lattice |-> lattice, executed |-> executed,
                               cfg |-> cfg_worklist, ssa |-> ssa_worklist \ {v}])
          IN  /\ lattice' = st.lattice
              /\ cfg_worklist' = st.cfg
              /\ ssa_worklist' = st.ssa
    /\ UNCHANGED <<sccp_fn, executed, kpc>>
    /\ UNCHANGED notSccp

\* Both worklists are empty: the fixpoint.
FinishSccp ==
    /\ kpc = "run"
    /\ cfg_worklist = {}
    /\ ssa_worklist = {}
    /\ kpc' = "done"
    /\ UNCHANGED <<sccp_fn, lattice, executed, cfg_worklist, ssa_worklist>>
    /\ UNCHANGED notSccp

SccpNext == RunSccp \/ ProcessCfgEdge \/ ProcessSsaVariable \/ FinishSccp

(***************************************************************************)
(* Removal of empty basic blocks (src/vyper/ir/bb_optimizer.py).  A label  *)
(* is its value; a block holds no instruction or one terminator.           *)
(***************************************************************************)

NumEbBlocks == 3
MaxData == 1

EbLabels == 1..NumEbBlocks

\* The instruction lists of a block of the model: operands are labels.
EbInstructions ==
    {<<>>, <<[opcode |-> "stop", operands |-> <<>>]>>}
        \cup {<<[opcode |-> "jmp", operands |-> <<l>>]>> : l \in EbLabels}

EbBlock(label, is_symbol, instructions) ==
    [label |-> label, is_symbol |-> is_symbol, instructions |-> instructions]

\* The operands of a block with replaced_label turned into replacement_label.
EbRetarget(block, replaced_label, replacement_label) ==
    [block EXCEPT !.instructions =
        [k \in 1..Len(@) |->
            [@[k] EXCEPT !.operands =
                [n \in 1..Len(@) |->
                    IF @[n] = replaced_label THEN replacement_label ELSE @[n]]]]]

EbRemove(blocks, i) == [k \in 1..(Len(blocks) - 1) |-> IF k < i THEN blocks[k] ELSE blocks[k + 1]]

\* One empty block with a successor is removed: blocks[i] is the empty
\* block, blocks[i + 1] the block after it.
EbRemoveEmpty(blocks, i) ==
    LET bb == blocks[i]
        next == blocks[i + 1]
        replaced_label == IF bb.is_symbol THEN next.label ELSE bb.label
        replacement_label == IF bb.is_symbol THEN bb.label ELSE next.label
        relabelled ==
            IF bb.is_symbol
            THEN [blocks EXCEPT ![i + 1].label = bb.label, ![i + 1].is_symbol = TRUE]
            ELSE blocks
        retargeted ==
            [k \in 1..Len(blocks) |->
                EbRetarget(relabelled[k], replaced_label, replacement_label)]
    IN  EbRemove(retargeted, i)

EbInit ==
    /\ \E symbols \in [EbLabels -> BOOLEAN], insts \in [EbLabels -> EbInstructions] :
          eb_blocks = [k \in EbLabels |-> EbBlock(k, symbols[k], insts[k])]
    /\ \E n \in 0..MaxData : data_segment \in [1..n -> EbLabels]
    /\ eb_before = [blocks |-> eb_blocks, data |-> data_segment]
    /\ eb_i = 1
    /\ eb_count = 0
    /\ bpc = "loop"

EbIdle ==
    /\ eb_blocks = <<>>
    /\ data_segment = <<>>
    /\ eb_before = <<>>
    /\ eb_i = 0
    /\ eb_count = 0
    /\ bpc = "idle"

\* A round of the loop on a block that stays: it has instructions, or it
\* is the last block.
KeepBlock ==
    /\ bpc = "loop"
    /\ eb_i <= Len(eb_blocks)
    /\ Len(eb_blocks[eb_i].instructions) > 0 \/ eb_i = Len(eb_blocks)
    /\ eb_i' = eb_i + 1
    /\ UNCHANGED <<eb_blocks, data_segment, eb_before, eb_count, bpc>>
    /\ UNCHANGED notEb

\* A round of the loop on an empty block with a successor.
RemoveEmptyBlock ==
    /\ bpc = "loop"
    /\ eb_i < Len(eb_blocks)
    /\ Len(eb_blocks[eb_i].instructions) = 0
    /\ eb_blocks' = EbRemoveEmpty(eb_blocks, eb_i)
    /\ eb_count' = eb_count + 1
    /\ UNCHANGED <<data_segment, eb_before, eb_i, bpc>>
    /\ UNCHANGED notEb

\* The loop ends.
ReturnCount ==
    /\ bpc = "loop"
    /\ eb_i > Len(eb_blocks)
    /\ bpc' = "done"
    /\ UNCHANGED <<eb_blocks, data_segment, eb_before, eb_i, eb_count>>
    /\ UNCHANGED notEb

EbNext == KeepBlock \/ RemoveEmptyBlock \/ ReturnCount

(***************************************************************************)
(* NormalizationPass (src/vyper/venom/passes/normalization.py).  A label   *)
(* is a tuple of numbers: <<k>> for block k, and target, 0, source for     *)
(* the label f"{target}_split_{source}".  A block is its terminator.       *)
(***************************************************************************)

NumNmBlocks == 3

NmLabel(k) == <<k>>

SplitLabel(target, source) == target \o <<0>> \o source

\* The condition of a jnz and the operand of a dynamic jmp: a variable.
NmVariable == <<-1>>

NmLabels == {NmLabel(k) : k \in 1..NumNmBlocks}

NmJmp(label) == [opcode |-> "jmp", operands |-> <<label>>]

NmTerminators ==
    {[opcode |-> "stop", operands |-> <<>>], NmJmp(NmVariable)}
        \cup {NmJmp(l) : l \in NmLabels}
        \cup {[opcode |-> "jnz", operands |-> <<NmVariable, l[1], l[2]>>] :
                 l \in {p \in NmLabels \X NmLabels : p[1] # p[2]}}

\* The data segments of the model: none, or a jump table of two blocks.
NmDataSegments == {<<>>, <<NmLabel(NumNmBlocks - 1), NmLabel(NumNmBlocks)>>}

\* The CFG the pass finds: the labels a terminator names, and for a
\* dynamic jmp the labels of the data segment.
NmSuccessors(inst, data) ==
    IF inst.opcode = "jmp" /\ inst.operands[1] = NmVariable
    THEN {data[n] : n \in 1..Len(data)}
    ELSE {inst.operands[n] : n \in 1..Len(inst.operands)} \ {NmVariable}

NmBlockOf(blocks, label) == CHOOSE b \in 1..Len(blocks) : blocks[b].label = label

\* IRFunction.normalized: no block with several predecessors has a
\* predecessor with several successors.
normalized(blocks, cin, cout) ==
    \A b \in 1..Len(blocks) :
        Cardinality(cin[blocks[b].label]) > 1 =>
            \A in_bb \in cin[blocks[b].label] : Cardinality(cout[in_bb]) <= 1

\* _split_for_static_branch: the first operand of the jnz that names the
\* block is redirected to a new block that jumps to it.
split_for_static_branch(st, bb, in_bb) ==
    LET p == NmBlockOf(st.blocks, in_bb)
        jump_inst == st.blocks[p].instructions[1]
        edge == CHOOSE i \in 1..Len(jump_inst.operands) :
                    /\ jump_inst.operands[i] = bb
                    /\ \A j \in 1..(i - 1) : jump_inst.operands[j] # bb
        split_bb == [label |-> SplitLabel(bb, in_bb), instructions |-> <<NmJmp(bb)>>]
    IN  [st EXCEPT
            !.blocks = Append([@ EXCEPT ![p].instructions[1].operands[edge] =
                                            split_bb.label],
                              split_bb),
            !.cin = (split_bb.label :> {}) @@ @,
            !.cout = (split_bb.label :> {}) @@ @]

\* _split_for_dynamic_branch: the CFG and the data segment are redirected
\* to a new block that jumps to the block.
split_for_dynamic_branch(st, bb, in_bb) ==
    LET split_bb == [label |-> SplitLabel(bb, in_bb), instructions |-> <<NmJmp(bb)>>]
    IN  [st EXCEPT
            !.blocks = Append(@, split_bb),
            !.cout = (split_bb.label :> {bb})
                         @@ [@ EXCEPT ![in_bb] = (@ \ {bb}) \cup {split_bb.label}],
            !.cin = (split_bb.label :> {in_bb})
                        @@ [@ EXCEPT ![bb] = (@ \ {in_bb}) \cup {split_bb.label}],
            !.data = [n \in 1..Len(@) |-> IF @[n] = bb THEN split_bb.label ELSE @[n]]]

\* _split_basic_block: the loop over list(bb.cfg_in), in the order given.
RECURSIVE split_basic_block(_, _, _, _)
split_basic_block(st, bb, preds, n) ==
    IF n > Len(preds)
    THEN st
    ELSE LET in_bb == preds[n]
             jump_inst == st.blocks[NmBlockOf(st.blocks, in_bb)].instructions[1]
             split ==
                 IF Cardinality(st.cout[in_bb]) <= 1
                 THEN st
                 ELSE IF jump_inst.opcode = "jnz"
                 THEN [split_for_static_branch(st, bb, in_bb) EXCEPT !.changes = @ + 1]
                 ELSE [split_for_dynamic_branch(st, bb, in_bb) EXCEPT !.changes = @ + 1]
         IN  IF split.changes >= st.changes
             THEN split_basic_block(split, bb, preds, n + 1)
             ELSE split

NmInit ==
    /\ \E terminators \in [1..NumNmBlocks -> NmTerminators] :
          nm_blocks = [k \in 1..NumNmBlocks |->
                          [label |-> NmLabel(k), instructions |-> <<terminators[k]>>]]
    /\ nm_data \in NmDataSegments
    /\ nm_cfg_out = [l \in NmLabels |->
                        NmSuccessors(nm_blocks[NmBlockOf(nm_blocks, l)].instructions[1],
                                     nm_data)]
    /\ nm_cfg_in = [l \in NmLabels |-> {p \in NmLabels : l \in nm_cfg_out[p]}]
    /\ nm_before = [blocks |-> nm_blocks, cin |-> nm_cfg_in, cout |-> nm_cfg_out,
                    data |-> nm_data]
    /\ nm_i = 1
    /\ changes = 0
    /\ npc = "loop"

NmIdle ==
    /\ nm_blocks = <<>>
    /\ nm_cfg_in = <<>>
    /\ nm_cfg_out = <<>>
    /\ nm_data = <<>>
    /\ nm_before = <<>>
    /\ nm_i = 0
    /\ changes = 0
    /\ npc = "idle"

\* One round of the loop of _run_pass; the loop also meets the blocks the
\* pass appends.
NormalizeBlock ==
    /\ npc = "loop"
    /\ nm_i <= Len(nm_blocks)
    /\ LET bb == nm_blocks[nm_i].label
       IN  \E preds \in EvmOrders(nm_cfg_in[bb]) :
              LET st == IF Cardinality(nm_cfg_in[bb]) > 1
                        THEN split_basic_block(
                                 [blocks |-> nm_blocks, cin |-> nm_cfg_in,
                                  cout |-> nm_cfg_out, data |-> nm_data,
                                  changes |-> changes],
                                 bb, preds, 1)
                        ELSE [blocks |-> nm_blocks, cin |-> nm_cfg_in,
                              cout |-> nm_cfg_out, data |-> nm_data,
                              changes |-> changes]
              IN  /\ nm_blocks' = st.blocks
                  /\ nm_cfg_in' = st.cin
                  /\ nm_cfg_out' = st.cout
                  /\ nm_data' = st.data
                  /\ changes' = st.changes
    /\ nm_i' = nm_i + 1
    /\ UNCHANGED <<nm_before, npc>>
    /\ UNCHANGED notNm

\* The loop is over and the sanity check holds: the pass returns.
ReturnChanges ==
    /\ npc = "loop"
    /\ nm_i > Len(nm_blocks)
    /\ normalized(nm_blocks, nm_cfg_in, nm_cfg_out)
    /\ npc' = "done"
    /\ UNCHANGED <<nm_blocks, nm_cfg_in, nm_cfg_out, nm_data, nm_before, nm_i, changes>>
    /\ UNCHANGED notNm

\* The loop is over and the sanity check fails: "Normalization pass failed".
FailSanityCheck ==
    /\ npc = "loop"
    /\ nm_i > Len(nm_blocks)
    /\ ~normalized(nm_blocks, nm_cfg_in, nm_cfg_out)
    /\ npc' = "failed"
    /\ UNCHANGED <<nm_blocks, nm_cfg_in, nm_cfg_out, nm_data, nm_before, nm_i, changes>>
    /\ UNCHANGED notNm

NmNext == NormalizeBlock \/ ReturnChanges \/ FailSanityCheck

(***************************************************************************)
(* Lowering of `if` nodes (ir_node_to_venom.py, _convert_ir_bb).           *)
(*                                                                         *)
(* An IRnode is [value, args].  The trees are made of `if` nodes, with or  *)
(* without an else branch, over four leaves: a literal, `pass`, `assert`   *)
(* of a literal, and the `exit_to` of an external function without return  *)
(* type, which appends a stop.  The label of a block is its index in       *)
(* ctx.basic_blocks; ctx.get_basic_block() is the last block of the list.  *)
(***************************************************************************)
MaxIfDepth == 2

IRnode(value, args) == [value |-> value, args |-> args]

LiteralNode == IRnode("literal", <<>>)

IfLeaves ==
    {LiteralNode, IRnode("pass", <<>>), IRnode("exit_to", <<>>),
     IRnode("assert", <<LiteralNode>>)}

\* The trees of at most the given depth.
RECURSIVE IfNodes(_)
IfNodes(depth) ==
    IF depth = 0
    THEN IfLeaves
    ELSE LET sub == IfNodes(depth - 1)
         IN  sub \cup {IRnode("if", <<LiteralNode, t>>) : t \in sub}
                 \cup {IRnode("if", <<LiteralNode, t, e>>) : t \in sub, e \in sub}

\* ctx.get_basic_block()
CurrentBlock(ctx) == Len(ctx.basic_blocks)

\* ctx.append_basic_block(IRBasicBlock(ctx.get_next_label(...), ctx))
NewBlock(ctx) ==
    [ctx EXCEPT !.basic_blocks = Append(@, IRBasicBlock(Len(@) + 1))]

\* bb.append_instruction(opcode, ...): asserts that bb is not terminated
AppendTo(ctx, b, opcode, labels) ==
    IF is_terminated(ctx.basic_blocks[b])
    THEN [ctx EXCEPT !.failed = TRUE]
    ELSE [ctx EXCEPT !.basic_blocks[b] = append_instruction(@, Inst(opcode, labels))]

\* if isinstance(ret_val, IRLiteral): ret_val = append_instruction("store", ret_val)
StoreLiteral(r) ==
    IF r.ret = "literal"
    THEN [ctx |-> AppendTo(r.ctx, CurrentBlock(r.ctx), "store", <<>>), ret |-> "variable"]
    ELSE r

\* _convert_ir_bb: the context after the walk of ir and what the walk
\* returns: "none", "literal" or "variable".  ctx.log is kept for the
\* properties only.
RECURSIVE convert_ir_bb(_, _)
convert_ir_bb(ctx, ir) ==
    IF ir.value = "literal"
    THEN [ctx |-> ctx, ret |-> "literal"]
    ELSE IF ir.value = "pass"
    THEN [ctx |-> ctx, ret |-> "none"]
    ELSE IF ir.value = "exit_to"
    THEN [ctx |-> AppendTo(ctx, CurrentBlock(ctx), "stop", <<>>), ret |-> "none"]
    ELSE IF ir.value = "assert"
    THEN LET arg_0 == convert_ir_bb(ctx, ir.args[1])
         IN  [ctx |-> AppendTo(arg_0.ctx, CurrentBlock(arg_0.ctx), "assert", <<>>),
              ret |-> "none"]
    ELSE LET cont_ret == convert_ir_bb(ctx, ir.args[1])
             cond_block == CurrentBlock(cont_ret.ctx)
             with_else == NewBlock(cont_ret.ctx)
             else_block == CurrentBlock(with_else)
             else_ret_val ==
                 IF Len(ir.args) = 3
                 THEN StoreLiteral(convert_ir_bb(with_else, ir.args[3]))
                 ELSE [ctx |-> with_else, ret |-> "none"]
             else_block_finish == CurrentBlock(else_ret_val.ctx)
             with_then == NewBlock(else_ret_val.ctx)
             then_block == CurrentBlock(with_then)
             then_ret_val == StoreLiteral(convert_ir_bb(with_then, ir.args[2]))
             with_jnz == AppendTo(then_ret_val.ctx, cond_block, "jnz",
                                  <<then_block, else_block>>)
             then_block_finish == CurrentBlock(with_jnz)
             with_exit == NewBlock(with_jnz)
             exit_bb == CurrentBlock(with_exit)
             with_stores ==
                 IF then_ret_val.ret # "none" /\ else_ret_val.ret # "none"
                 THEN AppendTo(AppendTo(with_exit, then_block_finish, "store", <<>>),
                               else_block_finish, "store", <<>>)
                 ELSE with_exit
             after_else ==
                 IF ~is_terminated(with_stores.basic_blocks[else_block])
                 THEN AppendTo(with_stores, else_block_finish, "jmp", <<exit_bb>>)
                 ELSE with_stores
             after_then ==
                 IF ~is_terminated(after_else.basic_blocks[then_block])
                 THEN AppendTo(after_else, then_block_finish, "jmp", <<exit_bb>>)
                 ELSE after_else
         IN  [ctx |-> [after_then EXCEPT
                          !.log = Append(@, [else_block |-> else_block,
                                             else_block_finish |-> else_block_finish,
                                             then_block |-> then_block,
                                             then_block_finish |-> then_block_finish,
                                             exit_bb |-> exit_bb])],
              ret |-> "variable"]

CvInit ==
    /\ cv_ir \in IfNodes(MaxIfDepth)
    /\ cv_blocks = <<IRBasicBlock(1)>>
    /\ cv_log = <<>>
    /\ cv_failed = FALSE
    /\ vpc = "start"

CvIdle ==
    /\ cv_ir = <<>>
    /\ cv_blocks = <<>>
    /\ cv_log = <<>>
    /\ cv_failed = FALSE
    /\ vpc = "idle"

\* ir_node_to_venom: _convert_ir_bb(ctx, ir, {}, OrderedSet(), {})
ConvertIrBb ==
    /\ vpc = "start"
    /\ LET r == convert_ir_bb([basic_blocks |-> cv_blocks, log |-> <<>>,
                               failed |-> FALSE], cv_ir)
       IN  /\ cv_blocks' = r.ctx.basic_blocks
           /\ cv_log' = r.ctx.log
           /\ cv_failed' = r.ctx.failed
           /\ vpc' = IF r.ctx.failed THEN "failed" ELSE "patch"
    /\ UNCHANGED <<cv_ir, notCv>>

\* ir_node_to_venom: the patch-up loop over ctx.basic_blocks
PatchUpConverted ==
    /\ vpc = "patch"
    /\ cv_blocks' = [i \in 1..Len(cv_blocks) |-> PatchedBlock(cv_blocks, i)]
    /\ vpc' = "done"
    /\ UNCHANGED <<cv_ir, cv_log, cv_failed, notCv>>

CvNext ==
    \/ ConvertIrBb
    \/ PatchUpConverted

(***************************************************************************)
(* _calculate_liveness (src/vyper/ir/bb_optimizer.py), call by call.       *)
(*                                                                         *)
(* A frame of the recursion is [bb, i, entered]: the block of the call,    *)
(* the position of its loop in bb.out_set, and liveness_visited as it was  *)
(* when the call started (kept to recognise a call that repeats a call     *)
(* still in progress).  Block b reads the variable %b and defines none, so *)
(* the variables live at its head are its out_vars and %b.                 *)
(***************************************************************************)
NumLvBlocks == 3

\* The out_set of a block: up to two blocks, in the order the set is
\* iterated.
LvOutSets(n) ==
    {<<>>} \cup {<<s>> : s \in 1..n}
           \cup UNION {{<<s, t>> : t \in (1..n) \ {s}} : s \in 1..n}

\* The blocks that can be reached from block 1.
RECURSIVE LvReachable(_, _)
LvReachable(out, seen) ==
    LET more == seen \cup UNION {Range(out[b]) : b \in seen}
    IN  IF more = seen THEN seen ELSE LvReachable(out, more)

\* bb.calculate_liveness() followed by in_vars_for: the variables live at
\* the head of block b.
LvInVars(b, out_vars) == out_vars \cup {b}

LvFrame(bb, visited) == [bb |-> bb, i |-> 1, entered |-> visited]

LvTop == lv_stack[Len(lv_stack)]

\* The call for block bb with liveness_visited as given repeats a call
\* that is still in progress: the same call follows from it again, without
\* end.
LvRepeats(bb, visited) ==
    \E k \in 1..Len(lv_stack) :
        lv_stack[k].bb = bb /\ lv_stack[k].entered = visited

LvInit ==
    /\ \E n \in 1..NumLvBlocks :
          /\ lv_out_set \in [1..n -> LvOutSets(n)]
          /\ LvReachable(lv_out_set, {1}) = 1..n
    /\ liveness_visited = [b \in DOMAIN lv_out_set |-> 0]
    /\ lv_stack = <<>>
    /\ lv_out_vars = [b \in DOMAIN lv_out_set |-> {}]
    /\ lv_in_vars = [b \in DOMAIN lv_out_set |-> {}]
    /\ ypc = "start"

LvIdle ==
    /\ lv_out_set = <<>>
    /\ liveness_visited = <<>>
    /\ lv_stack = <<>>
    /\ lv_out_vars = <<>>
    /\ lv_in_vars = <<>>
    /\ ypc = "idle"

\* optimize_function: _calculate_liveness(ctx.basic_blocks[0], {})
CallCalculateLiveness ==
    /\ ypc = "start"
    /\ lv_stack' = <<LvFrame(1, liveness_visited)>>
    /\ ypc' = "running"
    /\ UNCHANGED <<lv_out_set, liveness_visited, lv_out_vars, lv_in_vars, notLv>>

\* if liveness_visited.get(bb, None) == out_bb: continue
SkipVisited ==
    /\ ypc = "running"
    /\ LvTop.i <= Len(lv_out_set[LvTop.bb])
    /\ liveness_visited[LvTop.bb] = lv_out_set[LvTop.bb][LvTop.i]
    /\ lv_stack' = [lv_stack EXCEPT ![Len(lv_stack)].i = @ + 1]
    /\ UNCHANGED <<lv_out_set, liveness_visited, lv_out_vars, lv_in_vars, ypc, notLv>>

\* liveness_visited[bb] = out_bb; _calculate_liveness(out_bb, liveness_visited)
Recurse ==
    /\ ypc = "running"
    /\ LvTop.i <= Len(lv_out_set[LvTop.bb])
    /\ LET out_bb == lv_out_set[LvTop.bb][LvTop.i]
           visited == [liveness_visited EXCEPT ![LvTop.bb] = out_bb]
       IN  /\ liveness_visited[LvTop.bb] # out_bb
           /\ ~LvRepeats(out_bb, visited)
           /\ liveness_visited' = visited
           /\ lv_stack' = Append(lv_stack, LvFrame(out_bb, visited))
    /\ UNCHANGED <<lv_out_set, lv_out_vars, lv_in_vars, ypc, notLv>>

\* The same, when the call repeats one in progress: the recursion goes on
\* until Python's recursion limit raises RecursionError.
RaiseRecursionError ==
    /\ ypc = "running"
    /\ LvTop.i <= Len(lv_out_set[LvTop.bb])
    /\ LET out_bb == lv_out_set[LvTop.bb][LvTop.i]
           visited == [liveness_visited EXCEPT ![LvTop.bb] = out_bb]
       IN  /\ liveness_visited[LvTop.bb] # out_bb
           /\ LvRepeats(out_bb, visited)
           /\ liveness_visited' = visited
    /\ ypc' = "RecursionError"
    /\ UNCHANGED <<lv_out_set, lv_stack, lv_out_vars, lv_in_vars, notLv>>

\* The loop is over: bb.calculate_liveness(); the call returns, and its
\* caller adds out_bb.in_vars_for(bb) to bb.out_vars.
ReturnLiveness ==
    /\ ypc = "running"
    /\ LvTop.i > Len(lv_out_set[LvTop.bb])
    /\ LET bb == LvTop.bb
           in_vars == LvInVars(bb, lv_out_vars[bb])
           n == Len(lv_stack)
       IN  /\ lv_in_vars' = [lv_in_vars EXCEPT ![bb] = in_vars]
           /\ \/ /\ n = 1
                 /\ lv_stack' = <<>>
                 /\ lv_out_vars' = lv_out_vars
                 /\ ypc' = "done"
              \/ /\ n > 1
                 /\ lv_stack' = [SubSeq(lv_stack, 1, n - 1) EXCEPT ![n - 1].i = @ + 1]
                 /\ lv_out_vars' =
                        [lv_out_vars EXCEPT ![lv_stack[n - 1].bb] = @ \cup in_vars]
                 /\ ypc' = ypc
    /\ UNCHANGED <<lv_out_set, liveness_visited, notLv>>

LvNext ==
    \/ CallCalculateLiveness
    \/ SkipVisited
    \/ Recurse
    \/ RaiseRecursionError
    \/ ReturnLiveness

(***************************************************************************)
(* Specifications.                                                         *)
(***************************************************************************)
InitLower == LowInit /\ CfgIdle /\ CacheIdle /\ PhiIdle /\ AliasIdle /\ SsaIdle /\ ClobIdle /\ WalkIdle /\ RleIdle
        /\ InlIdle
        /\ DftIdle
        /\ MvIdle
        /\ OptIdle
        /\ EvmIdle
        /\ SccpIdle
        /\ EbIdle
        /\ NmIdle
        /\ CvIdle
        /\ LvIdle

SpecLower == InitLower /\ [][LowNext]_vars

InitCFG == CfgInit /\ LowIdle /\ CacheIdle /\ PhiIdle /\ AliasIdle /\ SsaIdle /\ ClobIdle /\ WalkIdle /\ RleIdle
        /\ InlIdle
        /\ DftIdle
        /\ MvIdle
        /\ OptIdle
        /\ EvmIdle
        /\ SccpIdle
        /\ EbIdle
        /\ NmIdle
        /\ CvIdle
        /\ LvIdle

SpecCFG == InitCFG /\ [][CfgNext]_vars

InitCache == CacheInit /\ LowIdle /\ CfgIdle /\ PhiIdle /\ AliasIdle /\ SsaIdle /\ ClobIdle /\ WalkIdle /\ RleIdle
        /\ InlIdle
        /\ DftIdle
        /\ MvIdle
        /\ OptIdle
        /\ EvmIdle
        /\ SccpIdle
        /\ EbIdle
        /\ NmIdle
        /\ CvIdle
        /\ LvIdle

SpecCache == InitCache /\ [][CacheNext]_vars

InitPhi == PhiInit /\ LowIdle /\ CfgIdle /\ CacheIdle /\ AliasIdle /\ SsaIdle /\ ClobIdle /\ WalkIdle /\ RleIdle
        /\ InlIdle
        /\ DftIdle
        /\ MvIdle
        /\ OptIdle
        /\ EvmIdle
        /\ SccpIdle
        /\ EbIdle
        /\ NmIdle
        /\ CvIdle
        /\ LvIdle

SpecPhi == InitPhi /\ [][PhiNext]_vars

InitAlias == AliasInit /\ LowIdle /\ CfgIdle /\ CacheIdle /\ PhiIdle /\ SsaIdle /\ ClobIdle /\ WalkIdle /\ RleIdle
        /\ InlIdle
        /\ DftIdle
        /\ MvIdle
        /\ OptIdle
        /\ EvmIdle
        /\ SccpIdle
        /\ EbIdle
        /\ NmIdle
        /\ CvIdle
        /\ LvIdle

SpecAlias == InitAlias /\ [][AliasNext]_vars

InitMemSSA == SsaInit /\ LowIdle /\ CfgIdle /\ CacheIdle /\ PhiIdle /\ AliasIdle /\ ClobIdle /\ WalkIdle /\ RleIdle
        /\ InlIdle
        /\ DftIdle
        /\ MvIdle
        /\ OptIdle
        /\ EvmIdle
        /\ SccpIdle
        /\ EbIdle
        /\ NmIdle
        /\ CvIdle
        /\ LvIdle

SpecMemSSA == InitMemSSA /\ [][SsaNext]_vars

InitClob ==
    ClobInit /\ LowIdle /\ CfgIdle /\ CacheIdle /\ PhiIdle /\ AliasIdle /\ SsaIdle /\ WalkIdle
        /\ RleIdle
        /\ InlIdle
        /\ DftIdle
        /\ MvIdle
        /\ OptIdle
        /\ EvmIdle
        /\ SccpIdle
        /\ EbIdle
        /\ NmIdle
        /\ CvIdle
        /\ LvIdle

SpecClob == InitClob /\ [][ClobNext]_vars

InitWalk ==
    WalkInit /\ LowIdle /\ CfgIdle /\ CacheIdle /\ PhiIdle /\ AliasIdle /\ SsaIdle /\ ClobIdle
        /\ RleIdle
        /\ InlIdle
        /\ DftIdle
        /\ MvIdle
        /\ OptIdle
        /\ EvmIdle
        /\ SccpIdle
        /\ EbIdle
        /\ NmIdle
        /\ CvIdle
        /\ LvIdle

SpecWalk == InitWalk /\ [][WalkNext]_vars

InitRle ==
    RleInit /\ LowIdle /\ CfgIdle /\ CacheIdle /\ PhiIdle /\ AliasIdle /\ SsaIdle /\ ClobIdle
        /\ WalkIdle
        /\ InlIdle
        /\ DftIdle
        /\ MvIdle
        /\ OptIdle
        /\ EvmIdle
        /\ SccpIdle
        /\ EbIdle
        /\ NmIdle
        /\ CvIdle
        /\ LvIdle

SpecRle == InitRle /\ [][RleNext]_vars

InitInline ==
    InlInit /\ LowIdle /\ CfgIdle /\ CacheIdle /\ PhiIdle /\ AliasIdle /\ SsaIdle
        /\ ClobIdle /\ WalkIdle /\ RleIdle
        /\ DftIdle
        /\ MvIdle
        /\ OptIdle
        /\ EvmIdle
        /\ SccpIdle
        /\ EbIdle
        /\ NmIdle
        /\ CvIdle
        /\ LvIdle

SpecInline == InitInline /\ [][InlNext]_vars

InitDft ==
    DftInit /\ LowIdle /\ CfgIdle /\ CacheIdle /\ PhiIdle /\ AliasIdle /\ SsaIdle
        /\ ClobIdle /\ WalkIdle /\ RleIdle /\ InlIdle
        /\ MvIdle
        /\ OptIdle
        /\ EvmIdle
        /\ SccpIdle
        /\ EbIdle
        /\ NmIdle
        /\ CvIdle
        /\ LvIdle

SpecDft == InitDft /\ [][DftNext]_vars

InitMem2Var ==
    MvInit /\ LowIdle /\ CfgIdle /\ CacheIdle /\ PhiIdle /\ AliasIdle /\ SsaIdle
        /\ ClobIdle /\ WalkIdle /\ RleIdle /\ InlIdle /\ DftIdle /\ OptIdle
        /\ EvmIdle
        /\ SccpIdle
        /\ EbIdle
        /\ NmIdle
        /\ CvIdle
        /\ LvIdle

SpecMem2Var == InitMem2Var /\ [][MvNext]_vars

InitOptimize ==
    OptInit /\ LowIdle /\ CfgIdle /\ CacheIdle /\ PhiIdle /\ AliasIdle /\ SsaIdle
        /\ ClobIdle /\ WalkIdle /\ RleIdle /\ InlIdle /\ DftIdle /\ MvIdle
        /\ EvmIdle
        /\ SccpIdle
        /\ EbIdle
        /\ NmIdle
        /\ CvIdle
        /\ LvIdle

SpecOptimize == InitOptimize /\ [][OptNext]_vars

InitEvm ==
    EvmInit /\ LowIdle /\ CfgIdle /\ CacheIdle /\ PhiIdle /\ AliasIdle /\ SsaIdle
        /\ ClobIdle /\ WalkIdle /\ RleIdle /\ InlIdle /\ DftIdle /\ MvIdle /\ OptIdle
        /\ SccpIdle
        /\ EbIdle
        /\ NmIdle
        /\ CvIdle
        /\ LvIdle

SpecEvm == InitEvm /\ [][EvmNext]_vars

InitSccp ==
    SccpInit /\ LowIdle /\ CfgIdle /\ CacheIdle /\ PhiIdle /\ AliasIdle /\ SsaIdle
        /\ ClobIdle /\ WalkIdle /\ RleIdle /\ InlIdle /\ DftIdle /\ MvIdle /\ OptIdle /\ EvmIdle
        /\ EbIdle
        /\ NmIdle
        /\ CvIdle
        /\ LvIdle

SpecSccp == InitSccp /\ [][SccpNext]_vars

InitEmpty ==
    EbInit /\ LowIdle /\ CfgIdle /\ CacheIdle /\ PhiIdle /\ AliasIdle /\ SsaIdle
        /\ ClobIdle /\ WalkIdle /\ RleIdle /\ InlIdle /\ DftIdle /\ MvIdle /\ OptIdle /\ EvmIdle /\ SccpIdle
        /\ NmIdle
        /\ CvIdle
        /\ LvIdle

SpecEmpty == InitEmpty /\ [][EbNext]_vars

InitNormalize ==
    NmInit /\ LowIdle /\ CfgIdle /\ CacheIdle /\ PhiIdle /\ AliasIdle /\ SsaIdle
        /\ ClobIdle /\ WalkIdle /\ RleIdle /\ InlIdle /\ DftIdle /\ MvIdle /\ OptIdle /\ EvmIdle /\ SccpIdle /\ EbIdle
        /\ CvIdle
        /\ LvIdle

SpecNormalize == InitNormalize /\ [][NmNext]_vars

InitConvert ==
    CvInit /\ LowIdle /\ CfgIdle /\ CacheIdle /\ PhiIdle /\ AliasIdle /\ SsaIdle
        /\ ClobIdle /\ WalkIdle /\ RleIdle /\ InlIdle /\ DftIdle /\ MvIdle /\ OptIdle /\ EvmIdle /\ SccpIdle /\ EbIdle /\ NmIdle
        /\ LvIdle

SpecConvert == InitConvert /\ [][CvNext]_vars

InitLiveness ==
    LvInit /\ LowIdle /\ CfgIdle /\ CacheIdle /\ PhiIdle /\ AliasIdle /\ SsaIdle
        /\ ClobIdle /\ WalkIdle /\ RleIdle /\ InlIdle /\ DftIdle /\ MvIdle /\ OptIdle /\ EvmIdle /\ SccpIdle /\ EbIdle /\ NmIdle /\ CvIdle

SpecLiveness == InitLiveness /\ [][LvNext]_vars

\* The interpreter keeps running the call: it takes its next step.
FairLiveness == SpecLiveness /\ WF_vars(LvNext)

(***************************************************************************)
(* Claims.                                                                 *)
(***************************************************************************)
Last(s) == s[Len(s)]

\* C1: after CFGAnalysis.analyze on a function whose blocks are all
\* terminated, for all blocks A and B: B is in cfg_out(A) iff A is in
\* cfg_in(B), and both hold iff some jmp, jnz or djmp instruction of A has
\* B's label as a label operand.
C1_CfgConsistent ==
    cpc = "analyzed" =>
        \A A \in 1..Len(fn), B \in 1..Len(fn) :
            /\ (B \in Range(cfg_out[A])) <=> (A \in Range(cfg_in[B]))
            /\ (A \in Range(cfg_in[B])) <=>
                   (\E k \in 1..Len(fn[A].instructions) :
                       /\ fn[A].instructions[k].opcode \in {"jmp", "jnz", "djmp"}
                       /\ fn[B].label \in Range(fn[A].instructions[k].labels))

\* An analysed function whose entry block starts with a recursive invoke
\* (a label operand that is no jump), does not jump to itself and jumps
\* to block 2.
C1_Witness ==
    /\ cpc = "analyzed"
    /\ fn[1].instructions[1].opcode = "invoke"
    /\ 1 \notin Range(cfg_in[1])
    /\ 2 \in Range(cfg_out[1])
    /\ 1 \in Range(cfg_in[2])

\* C2: after ir_node_to_venom returns, every basic block is non-empty and
\* its last instruction is a terminator: a block the walk left unterminated
\* ends with a jmp to the next block of the list, an unterminated final
\* block ends with stop (and a block the walk terminated is unchanged).
C2_AllBlocksTerminated ==
    lpc = "done" =>
        /\ Len(basic_blocks) = Len(walked)
        /\ \A i \in 1..Len(basic_blocks) :
              /\ Len(basic_blocks[i].instructions) > 0
              /\ is_bb_terminator(Last(basic_blocks[i].instructions))
              /\ Last(basic_blocks[i].instructions).opcode \in
                     {"jmp", "djmp", "jnz", "ret", "return", "stop", "revert", "exit"}
              /\ is_terminated(walked[i]) => basic_blocks[i] = walked[i]
              /\ ~is_terminated(walked[i]) =>
                     basic_blocks[i].instructions =
                         Append(walked[i].instructions,
                                IF i < Len(basic_blocks)
                                THEN Inst("jmp", <<basic_blocks[i + 1].label>>)
                                ELSE Inst("stop", <<>>))

\* The function was returned, the walk had left a non-final block without
\* terminator and the final block empty.
C2_Witness ==
    /\ lpc = "done"
    /\ Len(walked) >= 2
    /\ Len(walked[1].instructions) > 0
    /\ ~is_terminated(walked[1])
    /\ Len(walked[Len(walked)].instructions) = 0
    /\ Last(basic_blocks[1].instructions) = Inst("jmp", <<basic_blocks[2].label>>)
    /\ Last(basic_blocks[Len(walked)].instructions).opcode = "stop"

\* C3 (the claim as stated): an instruction is a basic-block terminator,
\* and a block ending in it counts as terminated, if and only if its opcode
\* is one of jmp, djmp, jnz, ret, return, stop, revert, exit.
C3_TerminatorSet ==
    \A i \in 1..Len(basic_blocks) :
        /\ \A k \in 1..Len(basic_blocks[i].instructions) :
              is_bb_terminator(basic_blocks[i].instructions[k]) <=>
                  basic_blocks[i].instructions[k].opcode \in
                      {"jmp", "djmp", "jnz", "ret", "return", "stop", "revert", "exit"}
        /\ Len(basic_blocks[i].instructions) > 0 =>
              (is_terminated(basic_blocks[i]) <=>
                  Last(basic_blocks[i].instructions).opcode \in
                      {"jmp", "djmp", "jnz", "ret", "return", "stop", "revert", "exit"})

\* C4 (the claim as stated): invalidating the cached CFG analysis
\* invalidates the dominator, liveness, DFG, MemSSA and FCG analyses, so
\* that none of them is cached right after it and no result of theirs
\* computed before the invalidation is served from the cache afterwards.
C4_Dependents ==
    {"DominatorTreeAnalysis", "LivenessAnalysis", "DFGAnalysis", "MemSSA", "FCGAnalysis"}

C4_CfgInvalidationTransitive ==
    /\ (last_op.op = "invalidate" /\ last_op.analysis = "CFGAnalysis" /\ last_op.cached)
          => analyses_cache \cap C4_Dependents = {}
    /\ (last_op.op = "request" /\ last_op.analysis \in C4_Dependents)
          => ~last_op.stale

\* C5 (the claim as stated): after fix_phi_instructions(B), no instruction
\* that is still a phi in B has an operand label that is not the label of a
\* block in cfg_in(B), also when two or more predecessors (adjacent in the
\* operand list or not) were removed since the phi was built.
C5_PhiLabelsInCfgIn ==
    ppc = "fixed" =>
        \A k \in 1..Len(phi_insts) :
            phi_insts[k].opcode = "phi" =>
                \A j \in 1..Len(phi_insts[k].operands) :
                    phi_insts[k].operands[j].kind = "label" =>
                        phi_insts[k].operands[j].value \in Range(phi_cfg_in)

\* The bytes a location covers; FULL covers the whole address space.
AddressSpace == 0..(MaxOffset + MaxSize + 1)

BytesOf(loc) ==
    IF loc.kind = "FULL"
    THEN AddressSpace
    ELSE IF loc.kind = "EMPTY"
         THEN {}
         ELSE {x \in AddressSpace : loc.offset <= x /\ x < loc.offset + loc.size}

\* C6: may_alias(a, b) is true exactly when both locations have size greater
\* than zero and one of them is FULL or their byte ranges [offset,
\* offset + size) intersect; it is symmetric; adjacent ranges do not alias;
\* EMPTY and zero-size locations alias nothing, not themselves and not FULL.
C6_MayAliasCharacterised ==
    "may_alias" \in alias_asked =>
        /\ alias_ans.may_alias = (BytesOf(loc_a) \cap BytesOf(loc_b) # {})
        /\ alias_ans.may_alias = may_alias(loc_b, loc_a)
        /\ (loc_a.kind = "range" /\ loc_b.kind = "range"
                /\ loc_a.offset + loc_a.size = loc_b.offset) => ~alias_ans.may_alias
        /\ (IsEmptyLocation(loc_a) \/ IsEmptyLocation(loc_b)) => ~alias_ans.may_alias

\* Two adjacent non-empty ranges were asked and found not to alias.
C6_Witness ==
    /\ "may_alias" \in alias_asked
    /\ loc_a.kind = "range" /\ loc_b.kind = "range"
    /\ loc_a.size > 0 /\ loc_b.size > 0
    /\ loc_a.offset + loc_a.size = loc_b.offset
    /\ ~alias_ans.may_alias

RECURSIVE ExitStateOf(_)
ExitStateOf(b) ==
    IF Len(memory_defs[b]) > 0
    THEN DefId(memory_defs[b][Len(memory_defs[b])].version)
    ELSE IF memory_phis[b].present
         THEN PhiId(b)
         ELSE IF immediate_dominator(ssa_cfg_in, b) # 0
              THEN ExitStateOf(immediate_dominator(ssa_cfg_in, b))
              ELSE None

\* The memory state at the entry of a block.
EntryStateOf(b) ==
    IF memory_phis[b].present
    THEN PhiId(b)
    ELSE IF immediate_dominator(ssa_cfg_in, b) # 0
         THEN ExitStateOf(immediate_dominator(ssa_cfg_in, b))
         ELSE None

\* The closest def or phi that precedes position pos of block b.
ClosestPreceding(b, pos) ==
    LET earlier == {k \in 1..Len(memory_defs[b]) : memory_defs[b][k].pos < pos}
    IN  IF earlier # {}
        THEN DefId(memory_defs[b][CHOOSE k \in earlier : \A j \in earlier : j <= k].version)
        ELSE EntryStateOf(b)

\* C8 (the claim as stated): in the finished Memory SSA the reaching_def of
\* every memory use is the closest def or phi that precedes it: the nearest
\* earlier def of its own block; if there is none, the block's phi; if there
\* is none, the state inherited from the immediate dominator; live-on-entry
\* when nothing precedes it.  A use is never given a store that comes after
\* it in its own block.
C8_ReachingDefIsClosestPreceding ==
    spc = "done" =>
        \A b \in DOMAIN memory_uses :
            \A u \in 1..Len(memory_uses[b]) :
                memory_uses[b][u].reaching_def = ClosestPreceding(b, memory_uses[b][u].pos)

\* C9 (the claim as stated): every MemoryPhi at a block B has exactly one
\* operand per predecessor in cfg_in(B), and the operand of predecessor P is
\* the memory state at the exit of P (P's last def, else P's phi, else the
\* state inherited from P's dominators).
C9_PhiOperandPerPredecessor ==
    spc = "done" =>
        \A b \in DOMAIN memory_phis :
            memory_phis[b].present =>
                /\ Len(memory_phis[b].operands) = Len(ssa_cfg_in[b])
                /\ \A j \in 1..Len(memory_phis[b].operands) :
                      /\ memory_phis[b].operands[j][2] = ssa_cfg_in[b][j]
                      /\ memory_phis[b].operands[j][1] = ExitStateOf(ssa_cfg_in[b][j])

\* C10 (the claim as stated): when Memory SSA construction has finished, no
\* MemoryPhi remains whose operands all refer to one and the same memory
\* access, or whose operands refer only to the phi itself.
C10_NoRedundantPhi ==
    spc = "done" =>
        \A b \in DOMAIN memory_phis :
            (memory_phis[b].present /\ Len(memory_phis[b].operands) > 0) =>
                /\ \E j \in 1..Len(memory_phis[b].operands) :
                      memory_phis[b].operands[j][1] # memory_phis[b].operands[1][1]
                /\ \E j \in 1..Len(memory_phis[b].operands) :
                      memory_phis[b].operands[j][1] # PhiId(b)

\* The later defs whose write location contains every byte of the location
\* of def d.
C11_FullClobbers(d) ==
    {k \in (d + 1)..Len(clob_prog) :
        /\ HasMemoryDef(clob_prog[k])
        /\ BytesOf(clob_prog[d].write) \subseteq BytesOf(clob_prog[k].write)}

\* A read of a byte of the location of def d after d, up to and including
\* instruction c.
C11_ReadBetween(d, c) ==
    \E j \in (d + 1)..c :
        BytesOf(clob_prog[j].read) \cap BytesOf(clob_prog[d].write) # {}

\* C11: get_clobbering_memory_access(d) is the first def c after d in
\* program order whose write location completely overlaps d.loc, provided
\* no read that may-alias d.loc occurs after d up to and including c's own
\* instruction; otherwise none.  A def that overlaps d.loc only partially is
\* never returned and a def with no later def has none.
C11_ClobberingIsFirstFullOverwrite ==
    clob_ans.asked =>
        LET d == clob_ans.def
            full == C11_FullClobbers(d)
            first == CHOOSE k \in full : \A j \in full : k <= j
        IN  clob_ans.result =
                (IF full # {} /\ ~C11_ReadBetween(d, first) THEN first ELSE 0)

\* A def was asked whose clobberer comes after a def that overlaps it only
\* partially.
C11_Witness ==
    /\ clob_ans.asked
    /\ clob_ans.result > clob_ans.def + 1
    /\ HasMemoryDef(clob_prog[clob_ans.def + 1])
    /\ BytesOf(clob_prog[clob_ans.def + 1].write) \cap BytesOf(clob_prog[clob_ans.def].write) # {}

\* The accesses one backward step from an access: the reaching_def of a
\* def, the operands of a phi.
C12_Back(a) ==
    IF a[1] = "def"
    THEN {walk_ssa.reaching_def[<<a[2], a[3]>>]}
    ELSE IF a[1] = "phi"
         THEN Range(walk_ssa.operands[a[2]])
         ELSE {}

C12_Aliases(a, loc) ==
    /\ a[1] = "def"
    /\ BytesOf(walk_fn[a[2]].instructions[a[3]].write) \cap BytesOf(loc) # {}

\* The accesses reached walking backwards from `seen`; the walk goes on
\* through every def when through_clobbers, and stops at the defs that
\* may-alias loc otherwise.
RECURSIVE C12_BackClosure(_, _, _)
C12_BackClosure(seen, loc, through_clobbers) ==
    LET more == seen \cup UNION {C12_Back(a) :
                                    a \in {x \in seen : through_clobbers \/ ~C12_Aliases(x, loc)}}
    IN  IF more = seen THEN seen ELSE C12_BackClosure(more, loc, through_clobbers)

\* C12: for every use u in every CFG, loops with cyclic phis included,
\* get_clobbered_memory_access(u) returns a def that may-alias u.loc and is
\* the nearest such def on a backward walk from u along reaching_def and
\* through phis; it returns live-on-entry exactly when no def reachable
\* backwards from u may-alias u.loc.
C12_ClobberedIsNearestAliasingDef ==
    walk_ans.asked =>
        LET u == walk_ans.use
            loc == walk_fn[u[1]].instructions[u[2]].read
            start == {walk_ssa.reaching_def[u]}
            all == {a \in C12_BackClosure(start, loc, TRUE) : C12_Aliases(a, loc)}
            nearest == {a \in C12_BackClosure(start, loc, FALSE) : C12_Aliases(a, loc)}
        IN  /\ (walk_ans.result = live_on_entry) <=> (all = {})
            /\ (walk_ans.result # live_on_entry) => walk_ans.result \in nearest

\* A use below a loop whose phi and def refer to each other was asked, and
\* the def of the loop does not alias it.
C12_Witness ==
    /\ walk_ans.asked
    /\ walk_ans.result = live_on_entry
    /\ \E b \in DOMAIN walk_ssa.operands :
          \E j \in 1..Len(walk_ssa.operands[b]) :
              LET op == walk_ssa.operands[b][j]
              IN  /\ op[1] = "def"
                  /\ MemoryPhiAt(b) \in C12_BackClosure({op}, EMPTY_MEMORY_ACCESS, TRUE)
                  /\ MemoryPhiAt(b) \in
                        C12_BackClosure({walk_ssa.reaching_def[walk_ans.use]},
                                        EMPTY_MEMORY_ACCESS, TRUE)

\* C13 (the claim as stated): redundant-load elimination forwards a stored
\* value: when a block has an mstore of value v to a literal offset and
\* later an mload of that offset with no aliasing write between them, after
\* the pass the mload is a store of v into the load's output variable.
C13_StoreForwardedToLoad ==
    rpc = "done" =>
        \A j \in 1..Len(rle_orig), k \in 1..Len(rle_orig) :
            (/\ j < k
             /\ rle_orig[j].opcode = "mstore"
             /\ rle_orig[k].opcode = "mload"
             /\ rle_orig[j].offset = rle_orig[k].offset
             /\ \A i \in (j + 1)..(k - 1) :
                   rle_orig[i].opcode = "mstore" =>
                       BytesOf(RleLoc(rle_orig[i])) \cap BytesOf(RleLoc(rle_orig[k])) = {})
            => rle_insts[k] = [rle_orig[k] EXCEPT !.opcode = "store",
                                                  !.operands = rle_orig[j].operands]

\* The invoke instructions of the context that target f.
InvokeSites(ctx, f) ==
    {loc \in Positions(ctx) :
        LET inst == ctx[loc[1]][loc[2]].instructions[loc[3]]
        IN  IsInvoke(inst) /\ get_function(inst.operands[1]) = f}

InstAt(ctx, loc) == ctx[loc[1]][loc[2]].instructions[loc[3]]

AllInsts(ctx) == {InstAt(ctx, loc) : loc \in Positions(ctx)}

\* Every invoke that targeted f before the pass is in the context as it was.
InvokesUnchanged(f) ==
    \A loc \in InvokeSites(ctx_before, f) : InstAt(ctx_before, loc) \in AllInsts(ctx_functions)

\* The functions the pass's function reaches through invoke instructions,
\* itself included.
RECURSIVE ReachableFrom(_)
ReachableFrom(seen) ==
    LET more == {f \in Funcs : \E g \in seen : InvokeSites(ctx_before, f) \cap
                                   {loc \in Positions(ctx_before) : loc[1] = g} # {}}
    IN  IF more \subseteq seen THEN seen ELSE ReachableFrom(seen \cup more)

C15_InlinedFunctionRemoved ==
    ipc = "done" =>
        \A f \in Funcs :
            Cardinality(InvokeSites(ctx_before, f)) = 1 =>
                /\ InvokeSites(ctx_functions, f) = {}
                /\ f \notin DOMAIN ctx_functions

\* The blocks spliced into a caller: the copies carry an inline prefix.
SplicedBlocks ==
    {loc \in UNION {{<<f, b>> : b \in 1..Len(ctx_functions[f])} : f \in Funcs} :
        ctx_functions[loc[1]][loc[2]].label[2] # <<>>}

\* C16: when the pass has run, no block spliced into a caller holds a param
\* instruction.
C16_NoParamInSplicedBlocks ==
    ipc = "done" =>
        \A loc \in SplicedBlocks :
            \A k \in 1..Len(ctx_functions[loc[1]][loc[2]].instructions) :
                ctx_functions[loc[1]][loc[2]].instructions[k].opcode # "param"

\* The position of instruction i in the rebuilt block b (0: not there).
DftIndex(b, i) ==
    IF \E k \in 1..Len(dft_out[b]) : dft_out[b][k] = i
    THEN CHOOSE k \in 1..Len(dft_out[b]) : dft_out[b][k] = i
    ELSE 0

\* The rebuilt block b holds each instruction of the original block once.
DftIsPermutation(b) ==
    /\ Len(dft_out[b]) = Len(DftBlock(dft_fn, b))
    /\ \A k \in 1..Len(DftBlock(dft_fn, b)) : DftIndex(b, DftBlock(dft_fn, b)[k]) # 0

\* C17: every block DFTPass has rebuilt is a permutation of the block as it
\* was, in which each instruction comes after the producers of its operand
\* variables that are in its block and fence, and the terminator is last.
C17_PermutationProducersFirstTerminatorLast ==
    \A b \in 1..Len(dft_out) :
        /\ DftIsPermutation(b)
        /\ \A k \in 1..Len(dft_out[b]) :
              LET i == dft_out[b][k]
              IN  \A n \in 1..Len(dft_fn[i].operands) :
                      LET p == dft_fn[i].operands[n]
                      IN  (p # 0 /\ SameBlockAndFence(dft_fn, dft_fence, i, p)) =>
                              (DftIndex(b, p) # 0 /\ DftIndex(b, p) < k)
        /\ dft_fn[dft_out[b][Len(dft_out[b])]].opcode \in BB_TERMINATORS

\* C18: in every block DFTPass has rebuilt, the volatile instructions are in
\* their original order, the fence ids do not decrease along the block, and
\* every instruction is an instruction of the original block.
C18_NoReorderAcrossFenceOrBlock ==
    \A b \in 1..Len(dft_out) :
        /\ \A k \in 1..Len(dft_out[b]) : \A n \in (k + 1)..Len(dft_out[b]) :
              LET i == dft_out[b][k]
                  j == dft_out[b][n]
              IN  /\ dft_fence[i] <= dft_fence[j]
                  /\ (dft_fn[i].opcode \in VOLATILE_INSTRUCTIONS /\
                          dft_fn[j].opcode \in VOLATILE_INSTRUCTIONS) => i < j
        /\ \A k \in 1..Len(dft_out[b]) : DftParent(dft_fn, dft_out[b][k]) = b

\* A block was rebuilt in another order than it had, and it holds
\* instructions of two fences.
C18_Witness ==
    \E b \in 1..Len(dft_out) :
        /\ dft_out[b] # DftBlock(dft_fn, b)
        /\ \E k \in 1..Len(dft_out[b]) : \E n \in 1..Len(dft_out[b]) :
              dft_fence[dft_out[b][k]] # dft_fence[dft_out[b][n]]

\* The instruction of the block that has this identity.
M2vInstOf(insts, id) == insts[CHOOSE k \in 1..Len(insts) : insts[k].id = id]

\* The uses of var before the pass were rewritten for a virtual register:
\* each mload is a store from it, each mstore a store into it.
M2vRewritten(var) ==
    \E count \in 0..NumAllocas :
        \A k \in M2vGetUses(m2v_before, var) :
            LET old == m2v_before[k]
                new == M2vInstOf(m2v_insts, old.id)
            IN  /\ old.opcode = "mload" =>
                       new.opcode = "store" /\ new.operands = <<AddrVar(var, count)>>
                /\ old.opcode = "mstore" =>
                       new.opcode = "store" /\ new.output = AddrVar(var, count)

M2vUnchanged(var) ==
    \A k \in M2vGetUses(m2v_before, var) :
        M2vInstOf(m2v_insts, m2v_before[k].id) = m2v_before[k]

\* C19: when the pass has run, the uses of an alloca whose every use was an
\* mload, an mstore or a return are rewritten for a virtual register, and
\* the uses of any other alloca are unchanged.
C19_PromotedIffOnlyMemoryUses ==
    (mpc = "allocas" /\ m2v_todo = <<>>) =>
        \A var \in Allocas :
            IF AllUsesAre(m2v_before, M2vGetUses(m2v_before, var),
                          {"mload", "mstore", "return"})
            THEN M2vRewritten(var)
            ELSE M2vUnchanged(var)

\* The instructions of the function that unused-variable removal could
\* still remove by the claim's rule: not the last of their block, not
\* volatile, with an output that is not live after them.
OptRemovable(blocks) ==
    {p \in UNION {{<<b, k>> : k \in 1..(Len(blocks[b]) - 1)} : b \in 1..Len(blocks)} :
        /\ blocks[p[1]][p[2]].opcode \notin VOLATILE_INSTRUCTIONS
        /\ blocks[p[1]][p[2]].output # NoOutput
        /\ blocks[p[1]][p[2]].output \notin LiveAfter(blocks, p[1], p[2])}

\* C20: every instruction that unused-variable removal removed is not
\* volatile and had an output that was not live after it, and when
\* optimize_function has returned no such instruction is left.
C20_OnlyDeadNonVolatileRemovedUntilFixpoint ==
    /\ \A rec \in removed_log :
          /\ rec.inst.opcode \notin VOLATILE_INSTRUCTIONS
          /\ rec.inst.output \notin rec.liveness
    /\ opc = "done" => OptRemovable(opt_blocks) = {}

\* The places of the assembly where an instruction's own opcode stands.
EmittedAt(inst) ==
    {p \in 1..Len(assembly) :
        assembly[p].inst = inst.id /\ assembly[p].text = <<Upper(inst.opcode)>>}

\* The places of the assembly where a DUP of a variable stands.
DupsOf(v) == {p \in 1..Len(assembly) : assembly[p].text = <<"DUP", v>>}

\* The variables of the first block that have n uses in it.
UsedTimes(n) ==
    {v \in OptOutputs(<<evm_fn[1]>>) : Len(EvmUses(evm_fn[1], v, 1)) = n}

\* The use of v whose code comes first in the assembly.
FirstEmittedUse(v) ==
    LET uses == EvmUses(evm_fn[1], v, 1)
        At(n) == CHOOSE p \in EmittedAt(evm_fn[1][uses[n]]) : TRUE
    IN  CHOOSE n \in 1..Len(uses) : \A m \in 1..Len(uses) : At(n) <= At(m)

\* C21 as stated: in the emitted assembly the producer of a variable used
\* twice in a block stands once and the one DUP of the variable belongs to
\* its second use, and a variable used once has no DUP.
C21_DupAtSecondUse ==
    epc = "done" =>
        /\ \A v \in UsedTimes(2) :
              /\ Cardinality(EmittedAt(evm_fn[1][EvmProducer(evm_fn[1], v)])) = 1
              /\ Cardinality(DupsOf(v)) = 1
              /\ \A p \in DupsOf(v) :
                    assembly[p].inst = evm_fn[1][EvmUses(evm_fn[1], v, 1)[2]].id
        /\ \A v \in UsedTimes(1) : DupsOf(v) = {}

\* C21, amended: in the emitted assembly the producer of a variable used
\* twice in a block stands once and the one DUP of the variable belongs to
\* the use whose code is emitted first, so that the use emitted last
\* consumes the variable in place; a variable used once has no DUP.
C21_DupAtFirstEmittedUse ==
    epc = "done" =>
        /\ \A v \in UsedTimes(2) :
              /\ Cardinality(EmittedAt(evm_fn[1][EvmProducer(evm_fn[1], v)])) = 1
              /\ Cardinality(DupsOf(v)) = 1
              /\ \A p \in DupsOf(v) :
                    assembly[p].inst =
                        evm_fn[1][EvmUses(evm_fn[1], v, 1)[FirstEmittedUse(v)]].id
        /\ \A v \in UsedTimes(1) : DupsOf(v) = {}

\* Assembly is emitted for a block with a variable used twice whose DUP
\* belongs to the use that comes first in the block.
C21_Witness ==
    /\ epc = "done"
    /\ \E v \in UsedTimes(2) :
          /\ FirstEmittedUse(v) = 1
          /\ \E p \in DupsOf(v) :
                assembly[p].inst = evm_fn[1][EvmUses(evm_fn[1], v, 1)[1]].id

\* The jnz instructions of the function whose code is in the assembly.
EmittedJnz ==
    UNION {{evm_fn[b][k] : k \in {j \in 1..Len(evm_fn[b]) : evm_fn[b][j].opcode = "jnz"}} :
              b \in visited_basicblocks}

\* The place of the JUMPI of a jnz.
JumpiAt(inst) ==
    CHOOSE p \in 1..Len(assembly) :
        assembly[p].inst = inst.id /\ assembly[p].text = <<"JUMPI">>

\* C29: in the emitted assembly the JUMPI of every jnz pushes the first
\* label of the jnz and is followed at once by the code of the block of
\* its other label.
C29_FallThroughIsOtherTarget ==
    epc = "done" =>
        \A inst \in EmittedJnz :
            LET p == JumpiAt(inst)
            IN  /\ assembly[p - 1].text = <<"_sym_", inst.operands[2]>>
                /\ assembly[p + 1] = Asm(<<"_sym_", inst.operands[3]>>, 0)
                /\ assembly[p + 2].text = <<"JUMPDEST">>

\* The words the params of the function may receive.
SccpParamWords == [SccpParams(sccp_fn) -> 0..MaxParam]

\* An add of the constants 32 and 64, as literals or as variables that
\* hold them, in a block the pass reached.
AddOf32And64(b, inst) ==
    /\ inst.opcode = "add"
    /\ SccpReachable(executed, b)
    /\ SccpOperand(inst.operands[1], lattice) = LatticeConst(32)
    /\ SccpOperand(inst.operands[2], lattice) = LatticeConst(64)

EbOperandLabels(blocks) ==
    UNION {UNION {{blocks[b].instructions[k].operands[n] :
                      n \in 1..Len(blocks[b].instructions[k].operands)} :
                     k \in 1..Len(blocks[b].instructions)} :
              b \in 1..Len(blocks)}

EbBlockLabels(blocks) == {blocks[b].label : b \in 1..Len(blocks)}

\* C23: after the removal of empty blocks every label named by an operand
\* of an instruction or by the data segment is the label of a block of the
\* function.
C23_NoDanglingLabel ==
    bpc = "done" =>
        /\ EbOperandLabels(eb_blocks) \subseteq EbBlockLabels(eb_blocks)
        /\ {data_segment[n] : n \in 1..Len(data_segment)} \subseteq EbBlockLabels(eb_blocks)

\* The edges of the function before the pass that lead from a block with
\* several successors into a block with several predecessors.
CriticalEdges ==
    {e \in NmLabels \X NmLabels :
        /\ e[2] \in nm_before.cout[e[1]]
        /\ Cardinality(nm_before.cout[e[1]]) > 1
        /\ Cardinality(nm_before.cin[e[2]]) > 1}

\* The edge goes through a split block: a block whose only instruction is
\* a jmp to the target exists, and the jnz of the source names it instead
\* of the target, or, for a dynamic jmp, the data segment names a split
\* block of the target instead of the target.
GoesThroughSplit(e) ==
    LET jump_inst == nm_blocks[NmBlockOf(nm_blocks, e[1])].instructions[1]
        split == SplitLabel(e[2], e[1])
        names == {jump_inst.operands[n] : n \in 1..Len(jump_inst.operands)}
        data == {nm_data[n] : n \in 1..Len(nm_data)}
    IN  /\ \E b \in 1..Len(nm_blocks) :
              nm_blocks[b] = [label |-> split, instructions |-> <<NmJmp(e[2])>>]
        /\ IF jump_inst.opcode = "jnz"
           THEN split \in names /\ e[2] \notin names
           ELSE /\ e[2] \notin data
                /\ \E p \in NmLabels : SplitLabel(e[2], p) \in data

\* C24: when the loop of NormalizationPass is over the function is
\* normalized, no block with several predecessors having a predecessor
\* with several successors, and every edge that led from a conditional or
\* dynamic branch into a block with several predecessors goes through a new
\* block whose only instruction is a jmp to that block.
C24_NormalizedAfterPass ==
    npc \in {"done", "failed"} =>
        /\ normalized(nm_blocks, nm_cfg_in, nm_cfg_out)
        /\ \A e \in CriticalEdges : GoesThroughSplit(e)

\* C25 (the claim as stated): redundant-load elimination replaces a load L2
\* by the value of an earlier load L1 only if L1's location completely
\* overlaps L2's and no memory def between the two, in L1's block, in L2's
\* block or in a block between them, writes a location that may alias it,
\* whatever the location of L1's own reaching def.
C25_ReplacedOnlyIfNoAliasingDefBetween ==
    \A k \in 1..Len(replacements) :
        replacements[k] # 0 =>
            LET j == replacements[k]
            IN  /\ j < k
                /\ RleIsUse(rle_orig[j])
                /\ completely_overlaps(RleLoc(rle_orig[j]), RleLoc(rle_orig[k]))
                /\ \A i \in (j + 1)..(k - 1) :
                      RleIsDef(rle_orig[i]) =>
                          ~may_alias(RleLoc(rle_orig[i]), RleLoc(rle_orig[k]))

\* The blocks of the caller after the step that inlines: the function that
\* holds the call site of the callee the loop is at.
InlCallee == call_walk[walk_pos]

InlSite == SiteOf(ctx_functions, fcg.calls[InlCallee][1])

\* The label operands of the jmp, jnz and djmp instructions of blocks.
JumpTargets(blocks) ==
    UNION {UNION {{bb.instructions[k].operands[i] :
                      i \in {i \in 1..Len(bb.instructions[k].operands) :
                                IsLabel(bb.instructions[k].operands[i])}} :
                     k \in {k \in 1..Len(bb.instructions) :
                               bb.instructions[k].opcode \in CFG_ALTERING_INSTRUCTIONS}} :
              bb \in {blocks[b] : b \in 1..Len(blocks)}}

\* C26: after a call site is inlined, every block of the caller ends with a
\* terminator; the call-site block is its instructions before the invoke
\* followed by a jmp to the copy of the callee's entry block; the return
\* block holds exactly the instructions that followed the invoke, in their
\* order; every ret of the copied callee blocks is a jmp to the return
\* block; and every label a jmp, jnz or djmp of the caller names is the
\* label of a block of the caller.
C26_CallerValidAfterInline ==
    [][ctx_functions' # ctx_functions =>
          LET caller == InlSite[1]
              old == ctx_functions[caller]
              site_bb == old[InlSite[2]]
              call_idx == InlSite[3]
              callee == ctx_functions[InlCallee]
              new == ctx_functions'[caller]
              ret_bb == new[Len(old) + 1]
              entry == new[Len(old) + 2]
          IN  /\ Len(new) = Len(old) + 1 + Len(callee)
              /\ \A b \in 1..Len(new) :
                    /\ new[b].instructions # <<>>
                    /\ Last(new[b].instructions).opcode \in BB_TERMINATORS
              /\ entry.label = WithPrefix(inline_count, callee[1].label)
              /\ LET now == new[InlSite[2]].instructions
                 IN  /\ Len(now) = call_idx
                     /\ SubSeq(now, 1, call_idx - 1) =
                            SubSeq(site_bb.instructions, 1, call_idx - 1)
                     /\ now[call_idx].opcode = "jmp"
                     /\ now[call_idx].operands = <<entry.label>>
              /\ ret_bb.instructions =
                     SubSeq(site_bb.instructions, call_idx + 1, Len(site_bb.instructions))
              /\ \A j \in 1..Len(callee) :
                    LET copied == new[Len(old) + 1 + j].instructions
                    IN  /\ Len(copied) = Len(callee[j].instructions)
                        /\ \A k \in 1..Len(copied) :
                              /\ copied[k].opcode # "ret"
                              /\ callee[j].instructions[k].opcode = "ret" =>
                                    /\ copied[k].opcode = "jmp"
                                    /\ copied[k].operands = <<ret_bb.label>>
              /\ \A b \in 1..Len(old) : b # InlSite[2] => new[b] = old[b]
              /\ \A l \in JumpTargets(new) : \E b \in 1..Len(new) : new[b].label = l
      ]_vars

\* A callee that holds an inlined function of its own was inlined: the
\* caller has a jmp to a label with two inline prefixes, and the jmp that
\* was the callee's ret.
C26_Witness ==
    /\ inline_count >= 2
    /\ \E f \in Funcs :
          /\ \E l \in JumpTargets(ctx_functions[f]) : Len(l[2]) = 2
          /\ \E b \in 1..Len(ctx_functions[f]) :
                /\ Last(ctx_functions[f][b].instructions).opcode = "jmp"
                /\ Last(ctx_functions[f][b].instructions).id[1] \in 0..NumFuncs
                /\ Len(Last(ctx_functions[f][b].instructions).id) = 3

\* C27 (the claim as stated): in every block DFTPass has rebuilt, all phi
\* instructions precede every instruction that is not a phi.
C27_PhisFirst ==
    \A b \in 1..Len(dft_out) :
        \A k \in 1..Len(dft_out[b]) : \A n \in (k + 1)..Len(dft_out[b]) :
            dft_fn[dft_out[b][n]].opcode = "phi" => dft_fn[dft_out[b][k]].opcode = "phi"

\* The block ends with a jmp to the exit block, or with a terminator the
\* branch itself put there.
EndsAtExit(b, exit_bb) ==
    /\ is_terminated(cv_blocks[b])
    /\ Last(cv_blocks[b].instructions).opcode = "jmp" =>
           Last(cv_blocks[b].instructions).labels = <<exit_bb>>

\* C28 (the claim as stated): in the function ir_node_to_venom returns, for
\* every lowered `if`, the last block of the else branch and the last block
\* of the then branch end with a jmp to the if_exit block unless they end
\* with a terminator of their own; control that leaves the else branch does
\* not enter the then block.
C28_BranchesJumpToExit ==
    vpc = "done" =>
        \A n \in 1..Len(cv_log) :
            /\ EndsAtExit(cv_log[n].else_block_finish, cv_log[n].exit_bb)
            /\ EndsAtExit(cv_log[n].then_block_finish, cv_log[n].exit_bb)

\* C30 (the claim as stated): _calculate_liveness, started by
\* optimize_function on the first block, returns on every finite CFG,
\* loops included.
C30_LivenessTerminates == <>(ypc = "done")

=============================================================================
